---------------------------- MODULE Spec2Model ----------------------------
(***************************************************************************)
(* A model of the DAC review agent (package daisy): the aggregation of     *)
(* check results into section and overall statuses, the threshold checks   *)
(* over spreadsheet findings, the OCR overlay view of a PDF, the decisions  *)
(* of validate() about when and on which pages OCR is run, the OCR cache,  *)
(* the extraction of fields and yes/no answers, the spreadsheet checks,    *)
(* and a run of validate() section by section.                             *)
(*                                                                         *)
(* The model is a disjoint sum of units.  The variable `unit` is chosen by *)
(* Init and never changes; every action belongs to one unit and leaves the *)
(* variables of the other units at their idle values.  Each unit has its   *)
(* own specification (SpecSection, SpecReport, ...); Spec is their sum.    *)
(*                                                                         *)
(* Python values are modelled as follows.  An Optional[T] is a sequence of *)
(* length at most one (<<>> is None).  A str that is only compared or      *)
(* concatenated is a TLA+ string; a str that is trimmed or split is a      *)
(* sequence of one-character strings.  A dataclass is a record.            *)
(***************************************************************************)
EXTENDS Integers, Sequences, FiniteSets, TLC

VARIABLES
    unit,            \* which part of the program this behaviour exercises
    checks,          \* List[CheckResult] handed to _aggregate_section
    section,         \* Optional[SectionResult]: the result of _aggregate_section
    sections,        \* validate(): the sections aggregated so far
    open_checks,     \* validate(): secNN_checks, the list being filled
    result,          \* Optional[ReviewResult]: what validate() assembles
    finding,         \* the finding of a spreadsheet check: total_rows, failing_rows
    rule,            \* the ExcelThresholdRule applied to it
    mvp,             \* validate(mvp=...): tolerant mode
    thr_check,       \* Optional[CheckResult]: the result of a threshold check
    base_doc,        \* PdfDoc: the native text of each page of a PDF
    ocr_pages,       \* _PdfOverlayView._ocr_pages: page index -> OCR text
    view_page,       \* Optional[int]: the page last asked of the overlay view
    lines_out,       \* what _PdfOverlayView.page_lines returned for it
    dac_in,          \* validate(): its arguments, the rule set and the DAC PDF
    dac_pc,          \* validate(): where the run is in its OCR part
    pages_to_ocr,    \* validate(): Optional[List[int]], the pages selected for OCR
    dac_ocr_calls,   \* the calls of ocr_pdf_pages_best_effort made for the DAC
    dac_ocr_meta,    \* validate(): the dict dac_ocr_meta
    pdf_overlay,     \* validate(): pdf; <<>> is pdf_base, <<m>> an overlay with OCR map m
    ev_in,           \* _pdf_text_and_ocr_meta: its arguments and the evidence PDF
    ev_ocr_calls,    \* the calls of ocr_pdf_pages_best_effort it made
    ev_out,          \* Optional: what it returned, or that it raised
    cache_files,     \* ocr_cache: cache key -> text of the cache file
    cache_written,   \* for each request of a run that wrote its entry, the texts written
    cache_last,      \* Optional: the last call of ocr_pdf_pages_best_effort and its answer
    yn_in,           \* the arguments of extract_yes_no or of _extract_yes_no_near
    yn_out,          \* Optional: the answer returned for them
    ex_in,           \* the extractor called and its arguments
    ex_out,          \* <<>>, or <<the value returned and the extractors consulted>>
    fx_in,           \* the evidence directory, the referenced names, the suffix, the platform
    fx_out,          \* <<>>, or <<the value _find_export_file returned>>
    tb_in,           \* the check called, the table and the other arguments
    tb_out,          \* <<>>, or <<what the check found>>
    run_in,          \* validate(): its mode flags, the rules file, the extracted values, the evidence
    run_pc,          \* validate(): the step the run is at
    run_rules,       \* validate(): Optional[Rules], what load_rules returned
    run_sections,    \* validate(): the sections aggregated so far
    run_out,         \* <<>>, or <<what validate() returned or raised>>
    vw_in,           \* validate(): the DAC PDF and how the OCR of it went
    vw_pdf,          \* validate(): <<>> before pdf is settled, then <<"base">> or <<"overlay">>
    vw_read          \* <<>>, or <<the last call on pdf and what it returned>>

sectionVars == <<checks, section>>
reportVars  == <<sections, open_checks, result>>
thresholdVars == <<finding, rule, mvp, thr_check>>
overlayVars == <<base_doc, ocr_pages, view_page, lines_out>>
dacVars == <<dac_in, dac_pc, pages_to_ocr, dac_ocr_calls, dac_ocr_meta, pdf_overlay>>
evidenceVars == <<ev_in, ev_ocr_calls, ev_out>>
cacheVars == <<cache_files, cache_written, cache_last>>
yesnoVars == <<yn_in, yn_out>>
extractVars == <<ex_in, ex_out>>
exportVars == <<fx_in, fx_out>>
tableVars == <<tb_in, tb_out>>
runVars == <<run_in, run_pc, run_rules, run_sections, run_out>>
viewVars == <<vw_in, vw_pdf, vw_read>>
vars == <<unit, sectionVars, reportVars, thresholdVars, overlayVars, dacVars,
          evidenceVars, cacheVars, yesnoVars, extractVars, exportVars,
          tableVars, runVars, viewVars>>

-----------------------------------------------------------------------------
(* Bounds of the model.                                                    *)

MaxChecks == 3          \* checks in the list given to _aggregate_section
MaxReportChecks == 3    \* checks in one modelled review, over all sections
MaxSections == 3        \* sections in one modelled review (validate has six)
MaxRows == 12           \* rows of a modelled spreadsheet (besides the 100-row example)
MaxViewPages == 2       \* pages of the PDF behind a modelled overlay view
MaxDacPages == 3        \* pages of a modelled DAC PDF
MaxOcrMaxPages == 2     \* largest modelled value of the argument ocr_max_pages
MaxEvidencePages == 2   \* pages of a modelled evidence PDF
MaxCacheFiles == 1      \* files in the modelled OCR cache directory
MaxAnswerLen == 3       \* characters of a generated text handed to extract_yes_no
MaxNearLen == 4         \* characters of a generated text handed to _extract_yes_no_near
MaxLabelLines == 2      \* lines of a generated page handed to the value extractors
MaxBlankLines == 8      \* blank lines between a label and its value
MaxDocPages == 2        \* pages of a DAC whose fields are resolved
MaxReferenced == 2      \* file names referenced in the DAC
MaxTableRows == 2       \* rows of a modelled spreadsheet table
MaxRequiredFiles == 2    \* required evidence PDFs named by a rules file
MaxSamples == 2         \* max_samples of check_required_columns_non_empty

-----------------------------------------------------------------------------
(* The units and their idle values.                                        *)

InitIdleSection == checks = <<>> /\ section = <<>>

InitIdleReport == sections = <<>> /\ open_checks = <<>> /\ result = <<>>

InitIdleThreshold ==
    /\ finding = [total_rows |-> 0, failing_rows |-> 0]
    /\ rule = [ratio_tol |-> <<0, 1>>, abs_tol |-> 0, severity |-> "major"]
    /\ mvp = FALSE
    /\ thr_check = <<>>

InitIdleOverlay ==
    /\ base_doc = <<>>
    /\ ocr_pages = <<>>
    /\ view_page = <<>>
    /\ lines_out = <<>>

InitIdleDac ==
    /\ dac_in = <<>>
    /\ dac_pc = "idle"
    /\ pages_to_ocr = <<>>
    /\ dac_ocr_calls = <<>>
    /\ dac_ocr_meta = <<>>
    /\ pdf_overlay = <<>>

\* The behaviour exercises unit u; the variables of the other units are idle.
InitIdleEvidence ==
    /\ ev_in = <<>>
    /\ ev_ocr_calls = <<>>
    /\ ev_out = <<>>

InitIdleCache ==
    /\ cache_files = <<>>
    /\ cache_written = <<>>
    /\ cache_last = <<>>

InitIdleYesNo ==
    /\ yn_in = <<>>
    /\ yn_out = <<>>

InitIdleExtract ==
    /\ ex_in = <<>>
    /\ ex_out = <<>>

InitIdleExport ==
    /\ fx_in = <<>>
    /\ fx_out = <<>>

InitIdleTable ==
    /\ tb_in = <<>>
    /\ tb_out = <<>>

InitIdleRun ==
    /\ run_in = <<>>
    /\ run_pc = <<>>
    /\ run_rules = <<>>
    /\ run_sections = <<>>
    /\ run_out = <<>>

InitIdleView ==
    /\ vw_in = <<>>
    /\ vw_pdf = <<>>
    /\ vw_read = <<>>

IdleExcept(u) ==
    /\ unit = u
    /\ IF u = "section" THEN TRUE ELSE InitIdleSection
    /\ IF u = "report" THEN TRUE ELSE InitIdleReport
    /\ IF u = "threshold" THEN TRUE ELSE InitIdleThreshold
    /\ IF u = "overlay" THEN TRUE ELSE InitIdleOverlay
    /\ IF u = "dac" THEN TRUE ELSE InitIdleDac
    /\ IF u = "evidence" THEN TRUE ELSE InitIdleEvidence
    /\ IF u = "cache" THEN TRUE ELSE InitIdleCache
    /\ IF u = "yesno" THEN TRUE ELSE InitIdleYesNo
    /\ IF u = "extract" THEN TRUE ELSE InitIdleExtract
    /\ IF u = "export" THEN TRUE ELSE InitIdleExport
    /\ IF u = "table" THEN TRUE ELSE InitIdleTable
    /\ IF u = "run" THEN TRUE ELSE InitIdleRun
    /\ IF u = "view" THEN TRUE ELSE InitIdleView

\* An action of unit u leaves the variables of the other units alone.
Frame(u) ==
    /\ unit = u
    /\ unit' = unit
    /\ IF u = "section" THEN TRUE ELSE UNCHANGED sectionVars
    /\ IF u = "report" THEN TRUE ELSE UNCHANGED reportVars
    /\ IF u = "threshold" THEN TRUE ELSE UNCHANGED thresholdVars
    /\ IF u = "overlay" THEN TRUE ELSE UNCHANGED overlayVars
    /\ IF u = "dac" THEN TRUE ELSE UNCHANGED dacVars
    /\ IF u = "evidence" THEN TRUE ELSE UNCHANGED evidenceVars
    /\ IF u = "cache" THEN TRUE ELSE UNCHANGED cacheVars
    /\ IF u = "yesno" THEN TRUE ELSE UNCHANGED yesnoVars
    /\ IF u = "extract" THEN TRUE ELSE UNCHANGED extractVars
    /\ IF u = "export" THEN TRUE ELSE UNCHANGED exportVars
    /\ IF u = "table" THEN TRUE ELSE UNCHANGED tableVars
    /\ IF u = "run" THEN TRUE ELSE UNCHANGED runVars
    /\ IF u = "view" THEN TRUE ELSE UNCHANGED viewVars

-----------------------------------------------------------------------------
(* Generic helpers.                                                        *)

Range(s) == {s[i] : i \in DOMAIN s}

Max(a, b) == IF a >= b THEN a ELSE b

Min(a, b) == IF a <= b THEN a ELSE b

RECURSIVE SumLen(_)
SumLen(ss) == IF ss = <<>> THEN 0 ELSE Len(Head(ss)) + SumLen(Tail(ss))

-----------------------------------------------------------------------------
(* models.py: the result model.                                            *)

Statuses == {"MET", "NOT_MET", "SKIPPED", "UNKNOWN"}

Severities == {"critical", "major", "minor", "info"}

CheckResult(check_id, name, status, severity, message) ==
    [check_id |-> check_id, name |-> name, status |-> status,
     severity |-> severity, message |-> message]

SectionResult(section_id, name, status, cs) ==
    [section_id |-> section_id, name |-> name, status |-> status, checks |-> cs]

ReviewResult(overall_status, secs, recs) ==
    [overall_status |-> overall_status, sections |-> secs, recommendations |-> recs]

-----------------------------------------------------------------------------
(* agent.py: the aggregation engine.                                       *)

\* A mutation of _aggregate_section: the critical rule looks at the first
\* check only.
aggregate_section_first_only(section_id, name, cs) ==
    LET crit_not == cs # <<>> /\ cs[1].status = "NOT_MET" /\ cs[1].severity = "critical"
        any_not == \E i \in DOMAIN cs : cs[i].status = "NOT_MET"
        any_met == \E i \in DOMAIN cs : cs[i].status = "MET"
        any_unknown == \E i \in DOMAIN cs : cs[i].status = "UNKNOWN"
        any_skipped == \E i \in DOMAIN cs : cs[i].status = "SKIPPED"
        status == IF crit_not THEN "NOT_MET"
                  ELSE IF any_not /\ any_met THEN "PARTIALLY_MET"
                  ELSE IF any_not /\ ~any_met THEN "NOT_MET"
                  ELSE IF any_met /\ (any_skipped \/ any_unknown) THEN "PARTIALLY_MET"
                  ELSE IF any_met THEN "MET"
                  ELSE "UNKNOWN"
    IN  SectionResult(section_id, name, status, cs)

\* A mutation of _aggregate_section: rule 4 forgets UNKNOWN checks.
aggregate_section_no_unknown(section_id, name, cs) ==
    LET crit_not == \E i \in DOMAIN cs :
                        cs[i].status = "NOT_MET" /\ cs[i].severity = "critical"
        any_not == \E i \in DOMAIN cs : cs[i].status = "NOT_MET"
        any_met == \E i \in DOMAIN cs : cs[i].status = "MET"
        any_skipped == \E i \in DOMAIN cs : cs[i].status = "SKIPPED"
        status == IF crit_not THEN "NOT_MET"
                  ELSE IF any_not /\ any_met THEN "PARTIALLY_MET"
                  ELSE IF any_not /\ ~any_met THEN "NOT_MET"
                  ELSE IF any_met /\ any_skipped THEN "PARTIALLY_MET"
                  ELSE IF any_met THEN "MET"
                  ELSE "UNKNOWN"
    IN  SectionResult(section_id, name, status, cs)

\* _aggregate_section(section_id, name, checks)
aggregate_section(section_id, name, cs) ==
    LET crit_not == \E i \in DOMAIN cs :
                        cs[i].status = "NOT_MET" /\ cs[i].severity = "critical"
        any_not == \E i \in DOMAIN cs : cs[i].status = "NOT_MET"
        any_met == \E i \in DOMAIN cs : cs[i].status = "MET"
        any_unknown == \E i \in DOMAIN cs : cs[i].status = "UNKNOWN"
        any_skipped == \E i \in DOMAIN cs : cs[i].status = "SKIPPED"
        status == IF crit_not THEN "NOT_MET"
                  ELSE IF any_not /\ any_met THEN "PARTIALLY_MET"
                  ELSE IF any_not /\ ~any_met THEN "NOT_MET"
                  ELSE IF any_met /\ (any_skipped \/ any_unknown) THEN "PARTIALLY_MET"
                  ELSE IF any_met THEN "MET"
                  ELSE "UNKNOWN"
    IN  SectionResult(section_id, name, status, cs)

\* A mutation of _aggregate_overall: the final test is any() instead of all().
aggregate_overall_any_met(secs) ==
    IF \E i \in DOMAIN secs : secs[i].status = "NOT_MET"
    THEN IF \A i \in DOMAIN secs : secs[i].status = "NOT_MET"
         THEN "NOT_MET"
         ELSE "PARTIALLY_MET"
    ELSE IF \E i \in DOMAIN secs : secs[i].status = "PARTIALLY_MET"
    THEN "PARTIALLY_MET"
    ELSE IF \E i \in DOMAIN secs : secs[i].status = "MET"
    THEN "MET"
    ELSE "UNKNOWN"

\* _aggregate_overall(sections)
aggregate_overall(secs) ==
    IF \E i \in DOMAIN secs : secs[i].status = "NOT_MET"
    THEN IF \A i \in DOMAIN secs : secs[i].status = "NOT_MET"
         THEN "NOT_MET"
         ELSE "PARTIALLY_MET"
    ELSE IF \E i \in DOMAIN secs : secs[i].status = "PARTIALLY_MET"
    THEN "PARTIALLY_MET"
    ELSE IF \A i \in DOMAIN secs : secs[i].status = "MET"
    THEN "MET"
    ELSE "UNKNOWN"

\* A mutation of the recommendation text: the message is used as it is, with
\* no fallback text for an empty one.
RecommendationLine_no_fallback(s, c) ==
    "[" \o s.section_id \o "] " \o c.name \o ": " \o c.message

\* The text of one recommendation:
\* f"[{s.section_id}] {c.name}: {c.message or 'Fix missing/invalid evidence.'}"
RecommendationLine(s, c) ==
    "[" \o s.section_id \o "] " \o c.name \o ": "
        \o (IF c.message # "" THEN c.message ELSE "Fix missing/invalid evidence.")

\* The inner loop of _recommendations_from_sections, over s.checks[j..].
RECURSIVE RecsOfChecks(_, _)
RecsOfChecks(s, j) ==
    IF j > Len(s.checks) THEN <<>>
    ELSE (IF s.checks[j].status = "NOT_MET"
          THEN <<RecommendationLine(s, s.checks[j])>>
          ELSE <<>>)
         \o RecsOfChecks(s, j + 1)

\* The outer loop of _recommendations_from_sections, over sections[i..].
RECURSIVE RecsOfSections(_, _)
RecsOfSections(secs, i) ==
    IF i > Len(secs) THEN <<>>
    ELSE RecsOfChecks(secs[i], 1) \o RecsOfSections(secs, i + 1)

\* _recommendations_from_sections(sections)
recommendations_from_sections(secs) == RecsOfSections(secs, 1)

-----------------------------------------------------------------------------
(* Unit "section": _aggregate_section applied to an arbitrary list of      *)
(* checks.                                                                 *)

CheckId(i) == "C" \o ToString(i)

CheckName(i) == "check " \o ToString(i)

InitSection ==
    /\ IdleExcept("section")
    /\ checks = <<>>
    /\ section = <<>>

\* A caller appends one more CheckResult to the list.
AppendCheck ==
    /\ Frame("section")
    /\ section = <<>>
    /\ Len(checks) < MaxChecks
    /\ \E st \in Statuses, sev \in Severities :
          checks' = Append(checks,
                           CheckResult(CheckId(Len(checks) + 1),
                                       CheckName(Len(checks) + 1), st, sev, ""))
    /\ UNCHANGED section

\* sec = _aggregate_section("4.1", "Entitlements", checks)
AggregateSection ==
    /\ Frame("section")
    /\ section = <<>>
    /\ section' = <<aggregate_section("4.1", "Entitlements", checks)>>
    /\ UNCHANGED checks

NextSection == AppendCheck \/ AggregateSection

SpecSection == InitSection /\ [][NextSection]_vars

-----------------------------------------------------------------------------
(* Unit "report": the assembly at the end of validate(): each section is   *)
(* aggregated from its list of checks, then the overall status and the     *)
(* recommendations are derived from the sections.                          *)

SectionIds == <<"1.1", "2.0", "4.1", "4.2", "4.3", "4.4">>

SectionNames == <<"General Information", "Process Evidence (PDFs)", "Entitlements",
                  "IT Roles", "Special Accounts", "Segregation of Duties">>

\* The (status, severity, message) shapes of the checks validate() builds,
\* and NOT_MET / UNKNOWN checks with the default empty message.
ReportCheckKinds ==
    { <<"MET", "major", "">>,
      <<"MET", "major", "MVP warning: 1 of 9 rows failed (tolerance=5).">>,
      <<"NOT_MET", "major", "Value missing or empty.">>,
      <<"NOT_MET", "critical", "Expected yes/no but value is missing or not parseable.">>,
      <<"NOT_MET", "major", "">>,
      <<"SKIPPED", "major", "MVP: evidence PDF missing; skipping.">>,
      <<"UNKNOWN", "major", "">> }

InitReport ==
    /\ IdleExcept("report")
    /\ sections = <<>>
    /\ open_checks = <<>>
    /\ result = <<>>

ReportChecksSoFar == SumLen([i \in DOMAIN sections |-> sections[i].checks]) + Len(open_checks)

\* secNN_checks.append(CheckResult(...))
ReportAppendCheck ==
    /\ Frame("report")
    /\ result = <<>>
    /\ Len(sections) < MaxSections
    /\ Len(sections) < Len(SectionIds)
    /\ ReportChecksSoFar < MaxReportChecks
    /\ \E k \in ReportCheckKinds :
          LET n == ReportChecksSoFar + 1
          IN  open_checks' = Append(open_checks,
                                    CheckResult(CheckId(n), CheckName(n), k[1], k[2], k[3]))
    /\ UNCHANGED <<sections, result>>

\* secNN = _aggregate_section(id, name, secNN_checks)
ReportCloseSection ==
    /\ Frame("report")
    /\ result = <<>>
    /\ Len(sections) < MaxSections
    /\ Len(sections) < Len(SectionIds)
    /\ LET k == Len(sections) + 1
       IN  sections' = Append(sections,
                              aggregate_section(SectionIds[k], SectionNames[k], open_checks))
    /\ open_checks' = <<>>
    /\ UNCHANGED result

\* overall = _aggregate_overall(sections);
\* recommendations = _recommendations_from_sections(sections);
\* result = ReviewResult(...)
Assemble ==
    /\ Frame("report")
    /\ result = <<>>
    /\ open_checks = <<>>
    /\ Len(sections) >= 1
    /\ result' = <<ReviewResult(aggregate_overall(sections), sections,
                                recommendations_from_sections(sections))>>
    /\ UNCHANGED <<sections, open_checks>>

NextReport == ReportAppendCheck \/ ReportCloseSection \/ Assemble

SpecReport == InitReport /\ [][NextReport]_vars

-----------------------------------------------------------------------------
(* agent.py: the threshold checks over spreadsheet findings.               *)
(*                                                                         *)
(* A ratio tolerance (a Python float) is modelled as an exact fraction     *)
(* <<num, den>> with den > 0, and total * ratio_tol as the exact product.  *)

\* Python's int(x) for the fraction x = num / den: truncation toward zero.
PyInt(num, den) == IF num >= 0 THEN num \div den ELSE -((-num) \div den)

\* A mutation of the tolerance: a subtraction where max() was meant.
Tolerance_subtracted(total, ratio_tol, abs_tol) ==
    abs_tol - PyInt(total * ratio_tol[1], ratio_tol[2])

\* tol = max(int(abs_tol), int(total * float(ratio_tol)))
Tolerance(total, ratio_tol, abs_tol) ==
    Max(abs_tol, PyInt(total * ratio_tol[1], ratio_tol[2]))

\* f"MVP warning: {failing} of {total} rows failed (tolerance={tol})."
MvpWarningMessage(failing, total, tol) ==
    "MVP warning: " \o ToString(failing) \o " of " \o ToString(total)
        \o " rows failed (tolerance=" \o ToString(tol) \o ")."

\* f"{failing} of {total} rows failed."
RowsFailedMessage(failing, total) ==
    ToString(failing) \o " of " \o ToString(total) \o " rows failed."

\* A mutation of _excel_finding_check_threshold: the tolerance is compared
\* with < where <= was meant.
excel_finding_check_threshold_strict_less(check_id, name, f, severity, m, ratio_tol, abs_tol) ==
    LET total == f.total_rows
        failing == f.failing_rows
        tol == Tolerance(total, ratio_tol, abs_tol)
    IN  IF failing = 0
        THEN CheckResult(check_id, name, "MET", severity, "")
        ELSE IF m /\ failing < tol
        THEN CheckResult(check_id, name, "MET", severity,
                         MvpWarningMessage(failing, total, tol))
        ELSE CheckResult(check_id, name, "NOT_MET", severity,
                         RowsFailedMessage(failing, total))

\* _excel_finding_check_threshold(check_id, name, finding, severity, mvp,
\*                                ratio_tol, abs_tol)
excel_finding_check_threshold(check_id, name, f, severity, m, ratio_tol, abs_tol) ==
    LET total == f.total_rows
        failing == f.failing_rows
        tol == Tolerance(total, ratio_tol, abs_tol)
    IN  IF failing = 0
        THEN CheckResult(check_id, name, "MET", severity, "")
        ELSE IF m /\ failing <= tol
        THEN CheckResult(check_id, name, "MET", severity,
                         MvpWarningMessage(failing, total, tol))
        ELSE CheckResult(check_id, name, "NOT_MET", severity,
                         RowsFailedMessage(failing, total))

\* _simple_threshold_check(check_id, name, failing_count, total, severity, mvp,
\*                         ratio_tol, abs_tol, evidence)
simple_threshold_check(check_id, name, failing_count, total, severity, m, ratio_tol, abs_tol) ==
    LET tol == Tolerance(total, ratio_tol, abs_tol)
    IN  IF failing_count = 0
        THEN CheckResult(check_id, name, "MET", severity, "")
        ELSE IF m /\ failing_count <= tol
        THEN CheckResult(check_id, name, "MET", severity,
                         MvpWarningMessage(failing_count, total, tol))
        ELSE CheckResult(check_id, name, "NOT_MET", severity,
                         RowsFailedMessage(failing_count, total))

-----------------------------------------------------------------------------
(* Unit "threshold": a threshold check applied to one finding under one    *)
(* tolerance rule.                                                         *)

\* Row counts of the modelled tables: small tables, and the 100-row table of
\* the specification's example.
TotalRows == (0..MaxRows) \cup {100}

\* ratio_tol values: 0, the defaults 0.01 and 0.10 of load_rules, 0.25, and a
\* negative value (load_rules accepts any number).
RatioTolerances == {<<0, 1>>, <<1, 100>>, <<1, 10>>, <<1, 4>>, <<-1, 10>>}

\* abs_tol values: 0, small ones, and the defaults 5 and 50 of load_rules.
AbsTolerances == {0, 2, 5, 50}

InitThreshold ==
    /\ IdleExcept("threshold")
    /\ \E total \in TotalRows : \E failing \in 0..total :
          finding = [total_rows |-> total, failing_rows |-> failing]
    /\ \E r \in RatioTolerances, a \in AbsTolerances :
          rule = [ratio_tol |-> r, abs_tol |-> a, severity |-> "major"]
    /\ mvp \in BOOLEAN
    /\ thr_check = <<>>

\* sec41_checks.append(_excel_finding_check_threshold("S4.1-EX-01", ...))
ExcelFindingCheckThreshold ==
    /\ Frame("threshold")
    /\ thr_check = <<>>
    /\ thr_check' = <<excel_finding_check_threshold(
                          "S4.1-EX-01",
                          "Entitlement Services: required master data filled",
                          finding, rule.severity, mvp, rule.ratio_tol, rule.abs_tol)>>
    /\ UNCHANGED <<finding, rule, mvp>>

\* sec42_checks.append(_simple_threshold_check(check_id="S4.2-EX-01", ...))
SimpleThresholdCheck ==
    /\ Frame("threshold")
    /\ thr_check = <<>>
    /\ thr_check' = <<simple_threshold_check(
                          "S4.2-EX-01",
                          "IT Role Services: required master data filled (base + owner fallback)",
                          finding.failing_rows, finding.total_rows,
                          rule.severity, mvp, rule.ratio_tol, rule.abs_tol)>>
    /\ UNCHANGED <<finding, rule, mvp>>

NextThreshold == ExcelFindingCheckThreshold \/ SimpleThresholdCheck

SpecThreshold == InitThreshold /\ [][NextThreshold]_vars

-----------------------------------------------------------------------------
(* Text as Python handles it.  A str that is trimmed or split is a         *)
(* sequence of one-character strings.                                      *)

Whitespace == {" ", "\t", "\n"}

\* str.lstrip()
RECURSIVE LStrip(_)
LStrip(s) == IF s # <<>> /\ Head(s) \in Whitespace THEN LStrip(Tail(s)) ELSE s

\* str.rstrip()
RECURSIVE RStrip(_)
RStrip(s) ==
    IF s # <<>> /\ s[Len(s)] \in Whitespace THEN RStrip(SubSeq(s, 1, Len(s) - 1)) ELSE s

\* str.strip()
Strip(s) == LStrip(RStrip(s))

\* str.splitlines(): the pieces between line breaks; no piece after a final
\* line break.
RECURSIVE SplitLines(_)
SplitLines(s) ==
    IF s = <<>> THEN <<>>
    ELSE IF \E k \in DOMAIN s : s[k] = "\n"
    THEN LET k == CHOOSE k \in DOMAIN s :
                      s[k] = "\n" /\ \A m \in 1..(k - 1) : s[m] # "\n"
         IN  <<SubSeq(s, 1, k - 1)>> \o SplitLines(SubSeq(s, k + 1, Len(s)))
    ELSE <<s>>

\* "\n".join(lines)
RECURSIVE JoinLines(_)
JoinLines(lines) ==
    IF lines = <<>> THEN <<>>
    ELSE IF Len(lines) = 1 THEN lines[1]
    ELSE lines[1] \o <<"\n">> \o JoinLines(Tail(lines))

\* [ln for ln in lines if ln.strip()]
RECURSIVE NonBlankLines(_)
NonBlankLines(lines) ==
    IF lines = <<>> THEN <<>>
    ELSE (IF Strip(Head(lines)) # <<>> THEN <<Head(lines)>> ELSE <<>>)
         \o NonBlankLines(Tail(lines))

\* [f(l) for l in lines] with f = str.rstrip
RECURSIVE RStripEach(_)
RStripEach(lines) ==
    IF lines = <<>> THEN <<>> ELSE <<RStrip(Head(lines))>> \o RStripEach(Tail(lines))

\* The characters of a string literal.
Chars(str) == [i \in 1..Len(str) |-> SubSeq(str, i, i)]

\* s.startswith(p)
StartsWith(s, p) == Len(p) <= Len(s) /\ SubSeq(s, 1, Len(p)) = p

\* s.endswith(p)
EndsWith(s, p) == Len(p) <= Len(s) /\ SubSeq(s, Len(s) - Len(p) + 1, Len(s)) = p

\* The positions at which p occurs in s.
Occurrences(s, p) == {i \in 1..(Len(s) - Len(p) + 1) : SubSeq(s, i, i + Len(p) - 1) = p}

\* p in s
Contains(s, p) == Len(p) = 0 \/ Occurrences(s, p) # {}

\* str.splitlines(True): the lines with their line breaks.
RECURSIVE SplitLinesKeepEnds(_)
SplitLinesKeepEnds(s) ==
    IF s = <<>> THEN <<>>
    ELSE IF \E k \in DOMAIN s : s[k] = "\n"
    THEN LET k == CHOOSE k \in DOMAIN s :
                      s[k] = "\n" /\ \A j \in 1..(k - 1) : s[j] # "\n"
         IN  <<SubSeq(s, 1, k)>> \o SplitLinesKeepEnds(SubSeq(s, k + 1, Len(s)))
    ELSE <<s>>

\* str(n) for an int n >= 0
IntChars(n) == Chars(ToString(n))

Digits == [c \in {"0", "1", "2", "3", "4", "5", "6", "7", "8", "9"} |->
              CHOOSE d \in 0..9 : ToString(d) = c]

\* int(s) for a str of decimal digits; <<>> where int raises ValueError.
RECURSIVE DigitsValue(_, _)
DigitsValue(s, acc) ==
    IF s = <<>> THEN acc ELSE DigitsValue(Tail(s), 10 * acc + Digits[Head(s)])

ParseInt(s) ==
    LET v == Strip(s)
    IN  IF v # <<>> /\ \A i \in DOMAIN v : v[i] \in DOMAIN Digits
        THEN <<DigitsValue(v, 0)>>
        ELSE <<>>

UpperLetters == Chars("ABCDEFGHIJKLMNOPQRSTUVWXYZ")

LowerLetters == Chars("abcdefghijklmnopqrstuvwxyz")

\* c.lower() for one character
LowerChar(c) ==
    IF \E i \in DOMAIN UpperLetters : UpperLetters[i] = c
    THEN LowerLetters[CHOOSE i \in DOMAIN UpperLetters : UpperLetters[i] = c]
    ELSE c

\* s.lower()
Lower(s) == [i \in DOMAIN s |-> LowerChar(s[i])]

\* The characters the regex class \w matches.
WordChars == Range(UpperLetters) \cup Range(LowerLetters) \cup DOMAIN Digits \cup {"_"}

\* re.search(r"\bw\b", s) for a word w: w occurs with no word character
\* directly before or after it.
SearchWord(s, w) ==
    \E i \in Occurrences(s, w) :
        /\ i = 1 \/ s[i - 1] \notin WordChars
        /\ i + Len(w) > Len(s) \/ s[i + Len(w)] \notin WordChars

\* All texts of at most n characters over an alphabet.
TextsUpTo(alphabet, n) == UNION {[1..k -> alphabet] : k \in 0..n}

-----------------------------------------------------------------------------
(* pdf_reader.py and agent.py: the document text service.  Pages are       *)
(* numbered from 0, as in the code; page i of doc is doc[i + 1].           *)

\* PdfDoc.page_count()
PdfDoc_page_count(doc) == Len(doc)

\* PdfDoc.page_text(index0)
PdfDoc_page_text(doc, i) == doc[i + 1]

\* PdfDoc.page_lines(index0)
PdfDoc_page_lines(doc, i) == RStripEach(SplitLines(PdfDoc_page_text(doc, i)))

\* self._ocr_pages.get(i) or ""
OcrTextOf(ocr, i) == IF i \in DOMAIN ocr THEN ocr[i] ELSE <<>>

\* A mutation of _PdfOverlayView.page_lines: OCR text is used whenever there
\* is some, whatever the base page holds.
page_lines_ocr_first(doc, ocr, i) ==
    LET base_lines == PdfDoc_page_lines(doc, i)
        ocr_text == Strip(OcrTextOf(ocr, i))
    IN  IF ocr_text # <<>>
        THEN NonBlankLines(SplitLines(ocr_text))
        ELSE base_lines

\* _PdfOverlayView.page_lines(i)
page_lines(doc, ocr, i) ==
    LET base_lines == PdfDoc_page_lines(doc, i)
        base_text == Strip(JoinLines(base_lines))
        ocr_text == Strip(OcrTextOf(ocr, i))
    IN  IF base_text = <<>> /\ ocr_text # <<>>
        THEN NonBlankLines(SplitLines(ocr_text))
        ELSE base_lines

-----------------------------------------------------------------------------
(* Unit "overlay": an overlay view over a PDF and a map of OCR texts,      *)
(* asked for the lines of its pages.                                       *)

\* Native page texts: no text, blank text, one line, two lines with trailing
\* blanks, a leading empty line.
PageTexts ==
    { <<>>,
      <<" ", "\n", " ">>,
      <<"a">>,
      <<"a", " ", "\n", "b">>,
      <<"\n", "a", "\n">> }

\* OCR texts: empty, blank, one line, lines with blank lines between them.
OcrTexts ==
    { <<>>,
      <<" ", "\n">>,
      <<"x">>,
      <<" ", "x", "\n", " ", "\n", "y", " ">> }

InitOverlay ==
    /\ IdleExcept("overlay")
    /\ \E n \in 1..MaxViewPages :
          /\ base_doc \in [1..n -> PageTexts]
          /\ \E keys \in SUBSET (0..(n - 1)) : ocr_pages \in [keys -> OcrTexts]
    /\ view_page = <<>>
    /\ lines_out = <<>>

\* lines = pdf.page_lines(i), pdf being a _PdfOverlayView
PageLines ==
    /\ Frame("overlay")
    /\ \E i \in 0..(PdfDoc_page_count(base_doc) - 1) :
          /\ view_page' = <<i>>
          /\ lines_out' = page_lines(base_doc, ocr_pages, i)
    /\ UNCHANGED <<base_doc, ocr_pages>>

NextOverlay == PageLines

SpecOverlay == InitOverlay /\ [][NextOverlay]_vars

-----------------------------------------------------------------------------
(* ocr.py: best-effort OCR of pages of a PDF.                              *)
(*                                                                         *)
(* In the units that decide about OCR a text is modelled by its length,    *)
(* and a dict key that is absent by FALSE, "" or <<>>.  What the OCR       *)
(* tooling and the cache directory do to one call is the environment's     *)
(* choice env: the cache file exists ("cache_hit"), pytesseract cannot be  *)
(* imported ("unavailable"), the PDF cannot be opened for rendering        *)
(* ("open_error"), the cache directory cannot be made ("mkdir_error"),     *)
(* rendering or recognition fails on every page ("page_error"),            *)
(* or the pages are rendered and recognized                                *)
(* ("recognized"); env.chars is the length of the text of each page.       *)

OcrEnvs ==
    [kind : {"mkdir_error", "cache_hit", "unavailable", "open_error", "page_error",
             "recognized"},
     chars : {0, 120}]

\* list(range(n))
RangeSeq(n) == [i \in 1..n |-> i - 1]

\* sorted(S) for a set S of integers
RECURSIVE SortedSeq(_)
SortedSeq(S) ==
    IF S = {} THEN <<>>
    ELSE LET m == CHOOSE x \in S : \A y \in S : x <= y
         IN  <<m>> \o SortedSeq(S \ {m})

\* xs[:k] for k >= 0
Take(xs, k) == SubSeq(xs, 1, Min(k, Len(xs)))

\* sum(len(v or "") for v in m.values())
RECURSIVE SumValues(_)
SumValues(m) ==
    IF DOMAIN m = {} THEN 0
    ELSE LET k == CHOOSE k \in DOMAIN m : TRUE
         IN  m[k] + SumValues([j \in (DOMAIN m) \ {k} |-> m[j]])

\* The pages one call works on: the given pages that exist in the document,
\* or the first max_pages pages when no pages are given.
OcrTargetPages(total_pages, max_pages, pages) ==
    IF pages # <<>> /\ Len(pages[1]) > 0
    THEN SelectSeq(pages[1], LAMBDA q : 0 <= q /\ q < total_pages)
    ELSE RangeSeq(Min(max_pages, total_pages))

OcrMeta(available, attempted, pages_used, text_chars, cache_hit, error) ==
    [ocr_enabled |-> TRUE, ocr_available |-> available, ocr_attempted |-> attempted,
     ocr_pages |-> Len(pages_used), ocr_text_chars |-> text_chars,
     ocr_cache_hit |-> cache_hit, ocr_succeeded |-> text_chars > 0,
     ocr_pages_used |-> pages_used, error |-> error]

\* ocr_pdf_pages_best_effort(pdf_path, cache_dir, max_pages=..., pages=...):
\* what it returns, (ocr_pages, meta), or that it raised.  max_pages is an
\* Optional[int]: int(None) raises TypeError; cache_dir.mkdir and int(max_pages)
\* are outside every try of the function.
ocr_pdf_pages_best_effort(total_pages, max_pages, pages, env) ==
    IF max_pages = <<>> \/ env.kind = "mkdir_error"
    THEN [raised |-> TRUE, ocr_pages |-> <<>>, meta |-> <<>>]
    ELSE LET targets == OcrTargetPages(total_pages, max_pages[1], pages)
             texts == [q \in Range(targets) |-> env.chars]
         IN  CASE env.kind = "cache_hit" ->
                    [raised |-> FALSE, ocr_pages |-> texts,
                     meta |-> OcrMeta(TRUE, TRUE, SortedSeq(DOMAIN texts),
                                      SumValues(texts), TRUE, "")]
               [] env.kind = "unavailable" ->
                    [raised |-> FALSE, ocr_pages |-> <<>>,
                     meta |-> OcrMeta(FALSE, TRUE, <<>>, 0, FALSE, "ocr_unavailable")]
               [] env.kind = "open_error" ->
                    [raised |-> FALSE, ocr_pages |-> <<>>,
                     meta |-> OcrMeta(TRUE, TRUE, <<>>, 0, FALSE, "ocr_error")]
               [] env.kind = "page_error" ->
                    [raised |-> FALSE, ocr_pages |-> [q \in Range(targets) |-> 0],
                     meta |-> OcrMeta(TRUE, TRUE, targets, 0, FALSE, "")]
               [] env.kind = "recognized" ->
                    [raised |-> FALSE, ocr_pages |-> texts,
                     meta |-> OcrMeta(TRUE, TRUE, targets, SumValues(texts), FALSE, "")]

-----------------------------------------------------------------------------
(* ocr.py: the OCR cache.  Here the page texts are strings and the cache   *)
(* directory is state: a function from cache keys to the texts of the      *)
(* cache files.  _sha8 is taken to be injective, so the key is the hashed  *)
(* payload itself.                                                         *)

\* ",".join(str(int(p)) for p in pages)
RECURSIVE JoinPages(_)
JoinPages(pages) ==
    IF pages = <<>> THEN <<>>
    ELSE IF Len(pages) = 1 THEN IntChars(pages[1])
    ELSE IntChars(pages[1]) \o <<",">> \o JoinPages(Tail(pages))

\* _cache_key(pdf_path, lang=, dpi=, max_pages=, pages=): the hashed payload.
\* pages is an Optional[List[int]]; None and [] both give "first=<max_pages>".
cache_key(doc, lang, dpi, max_pages, pages) ==
    LET pages_spec == IF pages # <<>> /\ pages[1] # <<>>
                      THEN Chars("pages=") \o JoinPages(pages[1])
                      ELSE Chars("first=") \o IntChars(max_pages)
    IN  Chars(doc) \o Chars("|lang=") \o Chars(lang) \o Chars("|dpi=") \o IntChars(dpi)
            \o <<"|">> \o pages_spec

\* _write_cache_txt: for each page in ascending order a marker line and the
\* text without trailing white space.
RECURSIVE WriteCachePages(_, _)
WriteCachePages(ocr_map, order) ==
    IF order = <<>> THEN <<>>
    ELSE Chars("===PAGE ") \o IntChars(Head(order)) \o Chars("===\n")
             \o RStrip(ocr_map[Head(order)]) \o <<"\n">>
             \o WriteCachePages(ocr_map, Tail(order))

write_cache_txt(ocr_map) == WriteCachePages(ocr_map, SortedSeq(DOMAIN ocr_map))

\* flush() of _read_cache_txt
CacheFlush(out, cur_page, buf) ==
    IF cur_page = <<>> THEN out
    ELSE [p \in (DOMAIN out) \cup {cur_page[1]} |->
              IF p = cur_page[1] THEN Strip(buf) ELSE out[p]]

\* The loop of _read_cache_txt over the lines of the file.
RECURSIVE ReadCacheLines(_, _, _, _)
ReadCacheLines(lines, out, cur_page, buf) ==
    IF lines = <<>> THEN CacheFlush(out, cur_page, buf)
    ELSE LET line == Head(lines)
         IN  IF StartsWith(line, Chars("===PAGE ")) /\ EndsWith(RStrip(line), Chars("==="))
             THEN LET stripped == Strip(line)
                      no_prefix == SubSeq(stripped, 9, Len(stripped))
                      mid == IF EndsWith(no_prefix, Chars("==="))
                             THEN SubSeq(no_prefix, 1, Len(no_prefix) - 3)
                             ELSE no_prefix
                  IN  ReadCacheLines(Tail(lines), CacheFlush(out, cur_page, buf),
                                     ParseInt(mid), <<>>)
             ELSE ReadCacheLines(Tail(lines), out, cur_page, buf \o line)

\* _read_cache_txt: page index -> text
read_cache_txt(txt) == ReadCacheLines(SplitLinesKeepEnds(txt), <<>>, <<>>, <<>>)

\* sum(len(v or "") for v in ocr_pages_map.values()) over texts
RECURSIVE SumTextLens(_)
SumTextLens(ocr_map) ==
    IF DOMAIN ocr_map = {} THEN 0
    ELSE LET k == CHOOSE k \in DOMAIN ocr_map : TRUE
         IN  Len(ocr_map[k]) + SumTextLens([j \in (DOMAIN ocr_map) \ {k} |-> ocr_map[j]])

\* ocr_pdf_pages_best_effort with its cache: what one call returns and what it
\* leaves in the cache directory.  env is what the OCR tooling does when it is
\* reached: env.kind as in OcrEnvs (a page that fails to render or to be
\* recognized is "page_error"), env.text the text recognized on each page,
\* env.write_ok whether the cache file can be written.
ocr_call(files, req, total_pages, env) ==
    LET key == cache_key(req.doc, req.lang, req.dpi, req.max_pages, req.pages)
        targets == OcrTargetPages(total_pages, req.max_pages, req.pages)
        texts == [q \in Range(targets) |->
                      IF env.kind = "page_error" THEN <<>> ELSE env.text]
        answer(pages_map, hit, rendered, available, error, new_files) ==
            [ocr_pages |-> pages_map, ocr_cache_hit |-> hit, rendered |-> rendered,
             ocr_available |-> available, ocr_attempted |-> TRUE,
             ocr_text_chars |-> SumTextLens(pages_map),
             ocr_succeeded |-> SumTextLens(pages_map) > 0,
             error |-> error, files |-> new_files]
    IN  IF key \in DOMAIN files
        THEN answer(read_cache_txt(files[key]), TRUE, FALSE, TRUE, "", files)
        ELSE CASE env.kind = "unavailable" ->
                    answer(<<>>, FALSE, FALSE, FALSE, "ocr_unavailable", files)
               [] env.kind = "open_error" ->
                    answer(<<>>, FALSE, FALSE, TRUE, "ocr_error", files)
               [] OTHER ->
                    answer(texts, FALSE, TRUE, TRUE, "",
                           IF env.write_ok
                           THEN [k \in (DOMAIN files) \cup {key} |->
                                     IF k = key THEN write_cache_txt(texts) ELSE files[k]]
                           ELSE files)

-----------------------------------------------------------------------------
(* Unit "cache": calls of ocr_pdf_pages_best_effort on one cache directory. *)

\* Two documents (their bytes), of two pages and of one page.
CacheDocs == {"DAC-A", "DAC-B"}

CacheDocPages(doc) == IF doc = "DAC-A" THEN 2 ELSE 1

OcrRequest(doc, lang, dpi, max_pages, pages) ==
    [doc |-> doc, lang |-> lang, dpi |-> dpi, max_pages |-> max_pages, pages |-> pages]

\* The requests: one request, and the requests that differ from it in the
\* document, the language, the DPI, max_pages, or in having explicit pages
\* (with either max_pages).
CacheRequests ==
    { OcrRequest("DAC-A", "eng", 200, 2, <<>>),
      OcrRequest("DAC-B", "eng", 200, 2, <<>>),
      OcrRequest("DAC-A", "deu", 200, 2, <<>>),
      OcrRequest("DAC-A", "eng", 300, 2, <<>>),
      OcrRequest("DAC-A", "eng", 200, 1, <<>>),
      OcrRequest("DAC-A", "eng", 200, 2, << <<1>> >>),
      OcrRequest("DAC-A", "eng", 200, 1, << <<1>> >>) }

\* Texts the recognition returns for a page.
RecognizedTexts == { <<>>, Chars("ab"), Chars(" ab") }

CacheEnvs ==
    [kind : {"unavailable", "open_error"}, text : {<<>>}, write_ok : {FALSE}]
    \cup [kind : {"page_error"}, text : {<<>>}, write_ok : BOOLEAN]
    \cup [kind : {"recognized"}, text : RecognizedTexts, write_ok : BOOLEAN]

InitCache ==
    /\ IdleExcept("cache")
    /\ cache_files = <<>>
    /\ cache_written = <<>>
    /\ cache_last = <<>>

OcrCall ==
    /\ Frame("cache")
    /\ \E req \in CacheRequests, env \in CacheEnvs :
          LET r == ocr_call(cache_files, req, CacheDocPages(req.doc), env)
              wrote == r.files # cache_files
          IN  /\ Cardinality(DOMAIN r.files) <= MaxCacheFiles
              /\ cache_files' = r.files
              /\ cache_written' =
                     IF wrote
                     THEN [q \in (DOMAIN cache_written) \cup {req} |->
                               IF q = req
                               THEN [p \in DOMAIN r.ocr_pages |-> RStrip(r.ocr_pages[p])]
                               ELSE cache_written[q]]
                     ELSE cache_written
              /\ cache_last' = <<[req |-> req, before |-> cache_written,
                                  ocr_pages |-> r.ocr_pages,
                                  ocr_cache_hit |-> r.ocr_cache_hit,
                                  rendered |-> r.rendered,
                                  ocr_succeeded |-> r.ocr_succeeded,
                                  error |-> r.error, env |-> env.kind]>>

NextCache == OcrCall

SpecCache == InitCache /\ [][NextCache]_vars

-----------------------------------------------------------------------------
(* agent.py: validate(), the OCR of the DAC PDF.                           *)
(*                                                                         *)
(* A page of the DAC is modelled by the length of its native text (taken   *)
(* without leading and trailing white space) and by the set of anchor      *)
(* phrases that occur in it.                                               *)

\* needles: the anchor phrases validate() searches the native text for.
Needles ==
    << "CMS Product ID", "IT Asset ID", "IT Asset Name", "Application is",
       "SoD relevant", "Functional Area", "upload the entitlement",
       "Is Application a", "critical and", "important function" >>

\* len((pdf_base.all_text() or "").strip()): the pages joined by "\n", without
\* the line breaks that empty pages leave at either end.
RECURSIVE SumChars(_, _, _)
SumChars(doc, i, j) == IF i > j THEN 0 ELSE doc[i].chars + SumChars(doc, i + 1, j)

BaseChars(doc) ==
    LET inked == {i \in DOMAIN doc : doc[i].chars > 0}
    IN  IF inked = {} THEN 0
        ELSE LET first == CHOOSE i \in inked : \A j \in inked : i <= j
                 last == CHOOSE i \in inked : \A j \in inked : i >= j
             IN  SumChars(doc, first, last) + (last - first)

\* PdfDoc.find_pages_containing(needle, True): the pages, numbered from 0, whose
\* text contains the needle.
find_pages_containing(doc, needle) ==
    LET hit(i) == needle \in doc[i + 1].anchors
    IN  SelectSeq(RangeSeq(Len(doc)), hit)

\* for n in needles: cand.extend(pdf_base.find_pages_containing(n, True))
RECURSIVE CandidatePages(_, _)
CandidatePages(doc, k) ==
    IF k > Len(Needles) THEN <<>>
    ELSE find_pages_containing(doc, Needles[k]) \o CandidatePages(doc, k + 1)

\* user_forced_pages = bool(ocr_pages and len(ocr_pages) > 0)
user_forced_pages(ocr_pages_arg) == ocr_pages_arg # <<>> /\ Len(ocr_pages_arg[1]) > 0

\* A mutation of should_ocr_dac: the OCR flag is joined with "or".
should_ocr_dac_or(ocr, base_chars, min_chars, forced) ==
    ocr \/ (base_chars < min_chars \/ forced)

\* should_ocr_dac = bool(ocr) and (base_chars < min_chars or user_forced_pages)
should_ocr_dac(ocr, base_chars, min_chars, forced) ==
    ocr /\ (base_chars < min_chars \/ forced)

\* The targeted DAC OCR selection of validate(): pages_to_ocr, or that the
\* selection raised (int(ocr_max_pages) of None).
SelectPagesToOcr(in) ==
    LET base_chars == BaseChars(in.doc)
        cand == IF base_chars > 0 THEN SortedSeq(Range(CandidatePages(in.doc, 1))) ELSE <<>>
    IN  IF user_forced_pages(in.ocr_pages)
        THEN [raised |-> FALSE,
              pages |-> SortedSeq({x \in Range(in.ocr_pages[1]) : x >= 0})]
        ELSE IF in.ocr_max_pages = <<>>
        THEN [raised |-> TRUE, pages |-> <<>>]
        ELSE IF cand # <<>>
        THEN [raised |-> FALSE, pages |-> Take(cand, Max(1, in.ocr_max_pages[1]))]
        ELSE [raised |-> FALSE,
              pages |-> RangeSeq(Min(in.ocr_max_pages[1], Len(in.doc)))]

\* dac_ocr_meta as validate() first builds it.
DacOcrMeta0(in) ==
    [ocr_enabled |-> in.ocr, ocr_available |-> FALSE, ocr_attempted |-> FALSE,
     ocr_succeeded |-> FALSE, ocr_cache_hit |-> FALSE,
     base_text_chars |-> BaseChars(in.doc),
     text_chars_after_ocr |-> BaseChars(in.doc),
     ocr_pages_used |-> <<>>, error |-> ""]

-----------------------------------------------------------------------------
(* Unit "dac": one run of validate() up to the point where the text of the *)
(* DAC is read.                                                            *)

\* Pages of a DAC: a scanned page without text, a short page without anchors,
\* a page with one anchor, a long page with two anchors.
DacPages ==
    { [chars |-> 0, anchors |-> {}],
      [chars |-> 9, anchors |-> {}],
      [chars |-> 22, anchors |-> {"CMS Product ID"}],
      [chars |-> 300, anchors |-> {"SoD relevant", "Functional Area"}] }

\* ocr_pages: None, an empty list, pages out of order, a negative page.
OcrPagesArgs == { <<>>, << <<>> >>, << <<1, 0>> >>, << <<-1>> >> }

\* ocr_max_pages: None (what __main__.py passes by default) or an int.
OcrMaxPagesArgs == { <<>> } \cup { <<n>> : n \in 0..MaxOcrMaxPages }

\* rules.pdf_evidence.min_text_chars: a small value and the default.
MinTextChars == {10, 200}

InitDac ==
    /\ IdleExcept("dac")
    /\ \E o \in BOOLEAN, op \in OcrPagesArgs, mp \in OcrMaxPagesArgs,
          mc \in MinTextChars, n \in 1..MaxDacPages :
          \E d \in [1..n -> DacPages] :
              dac_in = [ocr |-> o, ocr_pages |-> op, ocr_max_pages |-> mp,
                        min_text_chars |-> mc, doc |-> d]
    /\ dac_pc = "start"
    /\ pages_to_ocr = <<>>
    /\ dac_ocr_calls = <<>>
    /\ dac_ocr_meta = DacOcrMeta0(dac_in)
    /\ pdf_overlay = <<>>

\* if should_ocr_dac: ...
DacDecide ==
    /\ Frame("dac")
    /\ dac_pc = "start"
    /\ dac_pc' = IF should_ocr_dac(dac_in.ocr, BaseChars(dac_in.doc),
                                   dac_in.min_text_chars,
                                   user_forced_pages(dac_in.ocr_pages))
                 THEN "select"
                 ELSE "extract"
    /\ UNCHANGED <<dac_in, pages_to_ocr, dac_ocr_calls, dac_ocr_meta, pdf_overlay>>

\* The selection of pages_to_ocr; an exception ends the OCR part with
\* dac_ocr_meta["error"] set.
DacSelectPages ==
    /\ Frame("dac")
    /\ dac_pc = "select"
    /\ LET sel == SelectPagesToOcr(dac_in)
       IN  IF sel.raised
           THEN /\ dac_pc' = "extract"
                /\ dac_ocr_meta' = [dac_ocr_meta EXCEPT !.error = "TypeError"]
                /\ UNCHANGED pages_to_ocr
           ELSE /\ dac_pc' = "call"
                /\ pages_to_ocr' = <<sel.pages>>
                /\ UNCHANGED dac_ocr_meta
    /\ UNCHANGED <<dac_in, dac_ocr_calls, pdf_overlay>>

\* ocr_page_map, meta = ocr_pdf_pages_best_effort(...), and what validate()
\* does with the answer.
DacCallOcr ==
    /\ Frame("dac")
    /\ dac_pc = "call"
    /\ \E env \in OcrEnvs :
          LET r == ocr_pdf_pages_best_effort(Len(dac_in.doc), dac_in.ocr_max_pages,
                                             pages_to_ocr, env)
              ocr_text_total == SumValues(r.ocr_pages)
          IN  /\ dac_ocr_calls' =
                    Append(dac_ocr_calls,
                           [pages |-> pages_to_ocr[1], max_pages |-> dac_in.ocr_max_pages,
                            raised |-> r.raised, env |-> env.kind,
                            pages_used |-> IF r.raised THEN <<>> ELSE r.meta.ocr_pages_used])
              /\ IF r.raised
                 THEN /\ dac_ocr_meta' = [dac_ocr_meta EXCEPT !.error = "TypeError"]
                      /\ UNCHANGED pdf_overlay
                 ELSE /\ dac_ocr_meta' =
                            [dac_ocr_meta EXCEPT
                                !.ocr_enabled = TRUE,
                                !.ocr_available = r.meta.ocr_available,
                                !.ocr_attempted = TRUE,
                                !.ocr_cache_hit = r.meta.ocr_cache_hit,
                                !.text_chars_after_ocr =
                                    dac_ocr_meta.base_text_chars + ocr_text_total,
                                !.ocr_succeeded =
                                    ocr_text_total > 0 /\ r.meta.ocr_succeeded,
                                !.ocr_pages_used = SortedSeq(DOMAIN r.ocr_pages),
                                !.error = r.meta.error]
                      /\ pdf_overlay' = IF DOMAIN r.ocr_pages # {} /\ ocr_text_total > 0
                                        THEN <<r.ocr_pages>>
                                        ELSE <<>>
    /\ dac_pc' = "extract"
    /\ UNCHANGED <<dac_in, pages_to_ocr>>

NextDac == DacDecide \/ DacSelectPages \/ DacCallOcr

SpecDac == InitDac /\ [][NextDac]_vars

-----------------------------------------------------------------------------
(* util.py: extract_yes_no.  An Optional[str] is <<>> (None) or <<text>>.  *)

\* extract_yes_no(text): "yes", "no" or None
extract_yes_no(text) ==
    IF text = <<>> \/ text[1] = <<>> THEN <<>>
    ELSE LET t == Lower(Strip(text[1]))
         IN  IF SearchWord(t, Chars("yes")) THEN <<"yes">>
             ELSE IF SearchWord(t, Chars("no")) THEN <<"no">>
             ELSE <<>>

-----------------------------------------------------------------------------
(* agent.py: _normalize_text and _extract_yes_no_near.                     *)
(*                                                                         *)
(* A label pattern is a regular expression of the kind validate() uses: a  *)
(* sequence of pieces, matched without regard to case.                       *)

\* re.sub(r"[ \t]+", " ", s): one blank for every run of blanks and tabs
CollapseBlanks(s) ==
    LET blank(i) == s[i] \in {" ", "\t"}
        kept == SelectSeq([i \in 1..Len(s) |-> i],
                          LAMBDA i : ~(blank(i) /\ i > 1 /\ blank(i - 1)))
    IN  [k \in 1..Len(kept) |-> IF blank(kept[k]) THEN " " ELSE s[kept[k]]]

\* s.replace("\r\n", "\n").replace("\r", "\n")
UnifyLineBreaks(s) ==
    LET kept == SelectSeq([i \in 1..Len(s) |-> i],
                          LAMBDA i : ~(s[i] = "\n" /\ i > 1 /\ s[i - 1] = "\r"))
    IN  [k \in 1..Len(kept) |-> IF s[kept[k]] = "\r" THEN "\n" ELSE s[kept[k]]]

\* _normalize_text
normalize_text(s) == CollapseBlanks(UnifyLineBreaks(s))

\* The pieces of a pattern: a literal text, a run of least..most characters
\* of a class (most = <<>>: unbounded), the word boundary \b, the end of the
\* text $, and the start of the capturing group.
Piece(kind, c, set, inside, least, most) ==
    <<[piece |-> kind, c |-> c, set |-> set, inside |-> inside, least |-> least,
       most |-> most]>>

LitChars(c) == Piece("lit", c, {}, TRUE, 1, <<1>>)

Lit(str) == LitChars(Chars(str))

Class(set, inside, least, most) == Piece("class", <<>>, set, inside, least, most)

WsPlus == Class(Whitespace, TRUE, 1, <<>>)

WsStar == Class(Whitespace, TRUE, 0, <<>>)

AnyStar == Class({"\n"}, FALSE, 0, <<>>)

AnyPlus == Class({"\n"}, FALSE, 1, <<>>)

Opt(c) == Class({c}, TRUE, 0, <<1>>)

WordBoundary == Piece("wb", <<>>, {}, TRUE, 0, <<0>>)

EndOfText == Piece("end", <<>>, {}, TRUE, 0, <<0>>)

GroupStart == Piece("group", <<>>, {}, TRUE, 0, <<0>>)

\* The number of characters from position i on that are in the given set
\* (inside) or, for a negated class, are not in it.
RunLength(t, i, set, inside) ==
    LET stops == {j \in i..Len(t) : (t[j] \in set) # inside}
    IN  IF stops = {} THEN Len(t) - i + 1
        ELSE (CHOOSE j \in stops : \A j2 \in stops : j <= j2) - i

\* The literal c is at position i of t, without regard to case.
LiteralAt(t, i, c) ==
    i + Len(c) - 1 <= Len(t) /\ Lower(SubSeq(t, i, i + Len(c) - 1)) = Lower(c)

\* \b at position i: a word character on exactly one side.
BoundaryAt(t, i) ==
    (i > 1 /\ t[i - 1] \in WordChars) # (i <= Len(t) /\ t[i] \in WordChars)

\* The regex engine: the match of pieces k.. of pat that starts at position i
\* of t, as the backtracking search finds it (a greedy piece keeps the
\* longest run with which the rest still matches).  The result is <<>> if
\* there is no match, else <<e>> or <<e, g>>: e the position after the match,
\* g the position at which the capturing group starts.
RECURSIVE MatchFrom(_, _, _, _)
MatchFrom(t, i, pat, k) ==
    IF k > Len(pat) THEN <<i>>
    ELSE LET pc == pat[k]
             rest(j) == MatchFrom(t, j, pat, k + 1)
             run(n, least) ==
                 LET fits == {j \in least..n : rest(i + j) # <<>>}
                 IN  IF fits = {} THEN <<>>
                     ELSE rest(i + (CHOOSE j \in fits : \A j2 \in fits : j >= j2))
         IN  CASE pc.piece = "lit" ->
                    IF LiteralAt(t, i, pc.c) THEN rest(i + Len(pc.c)) ELSE <<>>
               [] pc.piece = "class" ->
                    LET n == RunLength(t, i, pc.set, pc.inside)
                    IN  run(IF pc.most # <<>> /\ pc.most[1] < n THEN pc.most[1] ELSE n,
                            pc.least)
               [] pc.piece = "wb" -> IF BoundaryAt(t, i) THEN rest(i) ELSE <<>>
               [] pc.piece = "end" -> IF i > Len(t) THEN rest(i) ELSE <<>>
               [] pc.piece = "group" ->
                    LET r == rest(i) IN IF r = <<>> THEN <<>> ELSE <<r[1], i>>

\* m = re.search(pat, t): <<>> for no match, else <<m.group(1)>> (the whole
\* match for a pattern without a group), for the leftmost match.
SearchGroup(t, pat) ==
    LET starts == {s \in 1..(Len(t) + 1) : MatchFrom(t, s, pat, 1) # <<>>}
    IN  IF starts = {} THEN <<>>
        ELSE LET s == CHOOSE s \in starts : \A s2 \in starts : s <= s2
                 r == MatchFrom(t, s, pat, 1)
             IN  <<SubSeq(t, IF Len(r) = 2 THEN r[2] ELSE s, r[1] - 1)>>

\* [m.end() for m in re.finditer(pat, t, flags=re.IGNORECASE)]: the matches
\* from left to right, without overlap.
RECURSIVE FindIterEnds(_, _, _)
FindIterEnds(t, pat, from) ==
    LET starts == {s \in from..(Len(t) + 1) : MatchFrom(t, s, pat, 1) # <<>>}
    IN  IF starts = {} THEN <<>>
        ELSE LET s == CHOOSE s \in starts : \A s2 \in starts : s <= s2
                 e == MatchFrom(t, s, pat, 1)[1]
             IN  <<e - 1>> \o FindIterEnds(t, pat, IF e > s THEN e ELSE s + 1)

\* chunk = t[start:end] for the match that ends at m_end
WindowAfter(t, m_end, window) == SubSeq(t, m_end + 1, Min(Len(t), m_end + window))

\* The loops of _extract_yes_no_near: the first window with an answer.
RECURSIVE NearOverMatches(_, _, _)
NearOverMatches(t, ends, window) ==
    IF ends = <<>> THEN <<>>
    ELSE LET yn == extract_yes_no(<<WindowAfter(t, Head(ends), window)>>)
         IN  IF yn # <<>> THEN yn ELSE NearOverMatches(t, Tail(ends), window)

RECURSIVE NearOverPatterns(_, _, _)
NearOverPatterns(t, label_patterns, window) ==
    IF label_patterns = <<>> THEN <<>>
    ELSE LET yn == NearOverMatches(t, FindIterEnds(t, Head(label_patterns), 1), window)
         IN  IF yn # <<>> THEN yn ELSE NearOverPatterns(t, Tail(label_patterns), window)

\* _extract_yes_no_near(text, label_patterns, window)
extract_yes_no_near(text, label_patterns, window) ==
    IF text = <<>> THEN <<>>
    ELSE NearOverPatterns(normalize_text(text), label_patterns, window)

-----------------------------------------------------------------------------
(* Unit "yesno": one call of extract_yes_no or of _extract_yes_no_near.     *)

\* The inputs of tests/test_extraction.py and of the documentation.
AnswerExamples ==
    { Chars("yes"), Chars("no"), Chars("Y"), Chars("n"), Chars("relevant? y"),
      Chars("Answer: No,"), Chars("   YES."), Chars("maybe") }

AnswerAlphabet == {"y", "N", "o", " ", "?"}

NearExampleText ==
    Chars("Functional Area relevant? y\nDo you want to upload the entitlement composition? n\n")

\* r"Functional\s+Area.*relevant"
FunctionalAreaPattern == Lit("Functional") \o WsPlus \o Lit("Area") \o AnyStar \o Lit("relevant")

\* r"upload\s+the\s+entitlement\s+composition"
UploadPattern ==
    Lit("upload") \o WsPlus \o Lit("the") \o WsPlus \o Lit("entitlement") \o WsPlus
        \o Lit("composition")

\* r"q\??": a one-letter label with an optional question mark
ShortLabelPattern == Lit("q") \o Opt("?")

NearAlphabet == {"q", "n", "o", " "}

\* window: the default and small windows
Windows == {0, 2, 3, 250}

YesNoInputs ==
    { [fn |-> "extract_yes_no", text |-> <<>>, label_patterns |-> <<>>, window |-> 0] }
    \cup { [fn |-> "extract_yes_no", text |-> <<x>>, label_patterns |-> <<>>, window |-> 0] :
               x \in AnswerExamples \cup TextsUpTo(AnswerAlphabet, MaxAnswerLen) }
    \cup { [fn |-> "_extract_yes_no_near", text |-> <<NearExampleText>>,
            label_patterns |-> <<p>>, window |-> w] :
               p \in {FunctionalAreaPattern, UploadPattern}, w \in Windows }
    \cup { [fn |-> "_extract_yes_no_near", text |-> <<x>>,
            label_patterns |-> <<ShortLabelPattern>>, window |-> w] :
               x \in TextsUpTo(NearAlphabet, MaxNearLen), w \in Windows }

InitYesNo ==
    /\ IdleExcept("yesno")
    /\ yn_in \in YesNoInputs
    /\ yn_out = <<>>

ExtractYesNo ==
    /\ Frame("yesno")
    /\ yn_in.fn = "extract_yes_no"
    /\ yn_out = <<>>
    /\ yn_out' = <<[value |-> extract_yes_no(yn_in.text)]>>
    /\ UNCHANGED yn_in

ExtractYesNoNear ==
    /\ Frame("yesno")
    /\ yn_in.fn = "_extract_yes_no_near"
    /\ yn_out = <<>>
    /\ yn_out' = <<[value |-> extract_yes_no_near(yn_in.text[1], yn_in.label_patterns,
                                                  yn_in.window)]>>
    /\ UNCHANGED yn_in

NextYesNo == ExtractYesNo \/ ExtractYesNoNear

SpecYesNo == InitYesNo /\ [][NextYesNo]_vars

-----------------------------------------------------------------------------
(* util.py and agent.py: the extraction of field values.  A value is <<>>  *)
(* (None) or <<text>>.                                                     *)

\* min(S) for a non-empty set of integers
Least(S) == CHOOSE x \in S : \A y \in S : x <= y

\* labels_l = [l.lower() for l in labels if l]
LabelsLower(labels) ==
    LET kept == SelectSeq(labels, LAMBDA l : l # <<>>)
    IN  [k \in DOMAIN kept |-> Lower(kept[k])]

\* any(lbl in s.lower() for lbl in labels_l)
HasLabel(s, labels_l) == \E k \in DOMAIN labels_l : Contains(Lower(s), labels_l[k])

\* parts = re.split(r":\s*", s, maxsplit=1): <<>> if there is no colon, else
\* <<parts[1].strip()>>
AfterFirstColon(s) ==
    IF ":" \notin Range(s) THEN <<>>
    ELSE <<Strip(SubSeq(s, Least({p \in DOMAIN s : s[p] = ":"}) + 1, Len(s)))>>

\* A mutation of NextLineValue: the window of _extract_value_from_text.
NextLineValue_five_lines(lines, labels_l, i) ==
    LET js == {j \in (i + 1)..Min(i + 5, Len(lines)) :
                   /\ Strip(lines[j]) # <<>>
                   /\ ~HasLabel(Strip(lines[j]), labels_l)}
    IN  IF js = {} THEN <<>> ELSE <<Strip(lines[Least(js)])>>

\* The inner loop of find_first_value_after_labels over the lines that
\* follow line i.
NextLineValue(lines, labels_l, i) ==
    LET js == {j \in (i + 1)..Min(i + 7, Len(lines)) :
                   /\ Strip(lines[j]) # <<>>
                   /\ ~HasLabel(Strip(lines[j]), labels_l)}
    IN  IF js = {} THEN <<>> ELSE <<Strip(lines[Least(js)])>>

\* What the body of the outer loop returns at line i, <<>> where it goes on.
ValueAtLine(lines, labels_l, i) ==
    LET s == Strip(lines[i])
    IN  IF s = <<>> \/ ~HasLabel(s, labels_l) THEN <<>>
        ELSE IF AfterFirstColon(s) # <<>> /\ AfterFirstColon(s)[1] # <<>>
        THEN AfterFirstColon(s)
        ELSE NextLineValue(lines, labels_l, i)

\* find_first_value_after_labels(lines, labels)
find_first_value_after_labels(lines, labels) ==
    LET labels_l == LabelsLower(labels)
        is == {i \in DOMAIN lines : ValueAtLine(lines, labels_l, i) # <<>>}
    IN  IF is = {} THEN <<>> ELSE ValueAtLine(lines, labels_l, Least(is))

\* _extract_stack_label_value(lines, label_stack)
extract_stack_label_value(lines, label_stack) ==
    LET low == [i \in DOMAIN lines |-> Strip(lines[i])]
        n == Len(label_stack)
        ok(i) == \A k \in 1..n :
                     /\ i + k - 1 <= Len(low)
                     /\ Contains(Lower(low[i + k - 1]), Lower(label_stack[k]))
        js(i) == {j \in (i + n)..Min(i + n + 5, Len(low)) : Strip(low[j]) # <<>>}
        is == {i \in DOMAIN low : ok(i) /\ js(i) # {}}
    IN  IF is = {} THEN <<>> ELSE <<Strip(low[Least(js(Least(is)))])>>

\* s.split("\n")
RECURSIVE SplitNewline(_)
SplitNewline(s) ==
    IF "\n" \notin Range(s) THEN <<s>>
    ELSE LET k == Least({k \in DOMAIN s : s[k] = "\n"})
         IN  <<SubSeq(s, 1, k - 1)>> \o SplitNewline(SubSeq(s, k + 1, Len(s)))

\* s.rstrip(":")
RECURSIVE RStripColon(_)
RStripColon(s) ==
    IF s # <<>> /\ s[Len(s)] = ":" THEN RStripColon(SubSeq(s, 1, Len(s) - 1)) ELSE s

\* rf"(?i)\b{re.escape(lab).rstrip(':')}\b\s*:?\s*(.+)$"
GenericPattern(lab) ==
    WordBoundary \o LitChars(RStripColon(lab)) \o WordBoundary \o WsStar \o Opt(":")
        \o WsStar \o GroupStart \o AnyPlus \o EndOfText

\* any(v.lower().startswith(x) for x in labs_low)
StartsWithLabel(v, labs_low) == \E k \in DOMAIN labs_low : StartsWith(Lower(v), labs_low[k])

\* _extract_value_from_text(text, label_variants)
extract_value_from_text(text, label_variants) ==
    IF text = <<>> THEN <<>>
    ELSE
    LET split == SplitNewline(normalize_text(text))
        lines == [i \in DOMAIN split |-> Strip(split[i])]
        labs_low == [k \in DOMAIN label_variants |-> RStripColon(Lower(label_variants[k]))]
        same(a, l) == LET g == SearchGroup(lines[l], GenericPattern(label_variants[a]))
                      IN  IF g = <<>> THEN <<>> ELSE Strip(g[1])
        hits == {p \in (DOMAIN label_variants) \X (DOMAIN lines) :
                     same(p[1], p[2]) # <<>> /\ ~StartsWithLabel(same(p[1], p[2]), labs_low)}
        js(i) == {j \in (i + 1)..Min(i + 5, Len(lines)) :
                      lines[j] # <<>> /\ ~StartsWithLabel(lines[j], labs_low)}
        is == {i \in DOMAIN lines :
                   /\ \E k \in DOMAIN labs_low : Contains(Lower(lines[i]), labs_low[k])
                   /\ js(i) # {}}
    IN  IF hits # {}
        THEN LET a == Least({p[1] : p \in hits})
                 l == Least({p[2] : p \in {q \in hits : q[1] = a}})
             IN  <<Take(same(a, l), 200)>>
        ELSE IF is # {} THEN <<Take(lines[Least(js(Least(is)))], 200)>>
        ELSE <<>>

DigitChars == DOMAIN Digits

AlnumChars == Range(UpperLetters) \cup Range(LowerLetters) \cup DigitChars

\* r"(?i)\bCMS\s*Product\s*ID\b[^0-9]{0,40}(\d{4,})"
CmsProductIdPattern ==
    WordBoundary \o Lit("CMS") \o WsStar \o Lit("Product") \o WsStar \o Lit("ID")
        \o WordBoundary \o Class(DigitChars, FALSE, 0, <<40>>) \o GroupStart
        \o Class(DigitChars, TRUE, 4, <<>>)

\* r"(?i)\bIT\s*Asset\s*ID\b[^A-Za-z0-9]{0,40}([A-Za-z0-9_-]{2,})"
ItAssetIdPattern ==
    WordBoundary \o Lit("IT") \o WsStar \o Lit("Asset") \o WsStar \o Lit("ID")
        \o WordBoundary \o Class(AlnumChars, FALSE, 0, <<40>>) \o GroupStart
        \o Class(AlnumChars \cup {"_", "-"}, TRUE, 2, <<>>)

\* _extract_cms_product_id(text)
extract_cms_product_id(text) ==
    IF text = <<>> THEN <<>> ELSE SearchGroup(normalize_text(text), CmsProductIdPattern)

\* _extract_it_asset_id(text)
extract_it_asset_id(text) ==
    IF text = <<>> THEN <<>> ELSE SearchGroup(normalize_text(text), ItAssetIdPattern)

\* PdfReader.all_text()
PdfDoc_all_text(doc) == JoinLines(doc)

\* _extract_value_global(pdf, label_variants)
extract_value_global(doc, label_variants) ==
    LET v(i) == find_first_value_after_labels(PdfDoc_page_lines(doc, i), label_variants)
        is == {i \in 0..(PdfDoc_page_count(doc) - 1) :
                   /\ v(i) # <<>>
                   /\ ~\E k \in DOMAIN label_variants :
                          StartsWith(Lower(v(i)[1]), Lower(label_variants[k]))}
    IN  IF is = {} THEN <<>> ELSE v(Least(is))

\* PdfReader.find_pages_containing(needle, True) for a needle that is not
\* empty
FindPagesContainingText(doc, needle) ==
    SortedSeq({i \in 0..(PdfDoc_page_count(doc) - 1) :
                   Contains(Lower(PdfDoc_page_text(doc, i)), Lower(Chars(needle)))})

\* cand_list of validate(), section 4.1
cand_list(doc) ==
    SortedSeq(UNION {Range(FindPagesContainingText(doc, n)) :
                         n \in {"Application is", "SoD relevant", "Functional Area",
                                "upload the"}})

\* a or b for two optional values
OrElse(a, b) == IF a # <<>> THEN a ELSE b

\* The body of the loop over cand_list for one field.
YesNoOnPage(lines, field) ==
    IF field = "fa_value"
    THEN OrElse(extract_yes_no(extract_stack_label_value(
                                   lines, <<Chars("Functional Area"), Chars("relevant?")>>)),
                extract_yes_no(find_first_value_after_labels(
                                   lines, <<Chars("Functional Area relevant?")>>)))
    ELSE OrElse(extract_yes_no(extract_stack_label_value(
                                   lines, <<Chars("Do you want to"), Chars("upload the"),
                                            Chars("entitlement"), Chars("composition?")>>)),
                extract_yes_no(find_first_value_after_labels(
                                   lines, <<Chars("upload the entitlement composition")>>)))

\* The value of the field after the loop over cand_list.
YesNoPerPage(doc, field) ==
    LET cand == cand_list(doc)
        ks == {k \in DOMAIN cand : YesNoOnPage(PdfDoc_page_lines(doc, cand[k]), field) # <<>>}
    IN  IF ks = {} THEN <<>>
        ELSE YesNoOnPage(PdfDoc_page_lines(doc, cand[Least(ks)]), field)

\* The label variants of the fields of section 1.1.
FieldLabels(field) ==
    IF field = "cms_id" THEN <<Chars("CMS Product ID")>>
    ELSE <<Chars("IT Asset ID"), Chars("IT Asset ID:")>>

\* A mutation of resolve_field: the document-wide extractors come first.
resolve_field_fallback_first(doc, field) ==
    LET all_text == PdfDoc_all_text(doc)
    IN  IF field \in {"cms_id", "it_asset_id"}
        THEN LET typed == IF field = "cms_id" THEN extract_cms_product_id(all_text)
                          ELSE extract_it_asset_id(all_text)
                 generic == extract_value_from_text(all_text, FieldLabels(field))
                 per_page == extract_value_global(doc, FieldLabels(field))
             IN  IF typed # <<>> THEN [value |-> typed, consulted |-> <<"typed">>]
                 ELSE IF generic # <<>>
                 THEN [value |-> generic, consulted |-> <<"typed", "generic">>]
                 ELSE [value |-> per_page, consulted |-> <<"typed", "generic", "per_page">>]
        ELSE LET near == extract_yes_no_near(
                             all_text,
                             IF field = "fa_value" THEN <<FunctionalAreaPattern \o Opt("?")>>
                             ELSE <<UploadPattern>>, 250)
             IN  IF near # <<>> THEN [value |-> near, consulted |-> <<"near">>]
                 ELSE [value |-> YesNoPerPage(doc, field),
                       consulted |-> <<"near", "per_page">>]

\* The value validate() settles on for one field, and the extractors it
\* called on the way, in the order of the calls.
resolve_field(doc, field) ==
    LET all_text == PdfDoc_all_text(doc)
    IN  IF field \in {"cms_id", "it_asset_id"}
        THEN LET per_page == extract_value_global(doc, FieldLabels(field))
                 typed == IF field = "cms_id" THEN extract_cms_product_id(all_text)
                          ELSE extract_it_asset_id(all_text)
             IN  IF per_page # <<>>
                 THEN [value |-> per_page, consulted |-> <<"per_page">>]
                 ELSE IF typed # <<>>
                 THEN [value |-> typed, consulted |-> <<"per_page", "typed">>]
                 ELSE [value |-> extract_value_from_text(all_text, FieldLabels(field)),
                       consulted |-> <<"per_page", "typed", "generic">>]
        ELSE LET per_page == YesNoPerPage(doc, field)
             IN  IF per_page # <<>>
                 THEN [value |-> per_page, consulted |-> <<"per_page">>]
                 ELSE [value |-> extract_yes_no_near(
                                     all_text,
                                     IF field = "fa_value"
                                     THEN <<FunctionalAreaPattern \o Opt("?")>>
                                     ELSE <<UploadPattern>>, 250),
                       consulted |-> <<"per_page", "near">>]

-----------------------------------------------------------------------------
(* Unit "extract": one call of an extractor, or the resolution of one     *)
(* field by validate().                                                    *)

\* Lines of a page: a label with a value after it, with and without a colon,
\* a label alone, a blank line, a value, a label with a colon and nothing
\* after it, a colon before the label.
LabelLines ==
    { Chars("CMS Product ID 1513344"), Chars("IT Asset ID: AID551"),
      Chars("CMS Product ID"), Chars(" "), Chars(" 1513344 "),
      Chars("CMS Product ID:"), Chars("Note: CMS Product ID 7") }

LabelVariants ==
    { <<Chars("CMS Product ID")>>, <<Chars("IT Asset ID"), Chars("IT Asset ID:")>> }

\* A label, k blank lines, a value.
PaddedLines(k) ==
    <<Chars("CMS Product ID")>> \o [i \in 1..k |-> <<>>] \o <<Chars("1513344")>>

ExtractLineLists ==
    UNION {[1..n -> LabelLines] : n \in 0..MaxLabelLines}
        \cup {PaddedLines(k) : k \in 0..MaxBlankLines}

\* The text of test_extract_value_from_text_same_line.
ValueExampleText ==
    Chars("CMS Product ID 1513344\nIT Asset ID: AID551\nIT Asset Name: MICROSOFT OFFICE 365\n")

\* The lines, each with its line break.
RECURSIVE TextOfLines(_)
TextOfLines(lines) ==
    IF lines = <<>> THEN <<>> ELSE Head(lines) \o <<"\n">> \o TextOfLines(Tail(lines))

\* Pages of a DAC: a field with a colon, a field the typed pattern reads, a
\* field only the generic pattern reads, answers on the line after the
\* question, after the question and after a colon, an empty page.
DocPageTexts ==
    { Chars("CMS Product ID: 2222\n"),
      Chars("CMS Product ID no. 1513344\n"),
      Chars("CMS Product ID 77\n"),
      Chars("IT Asset ID: AID551\n"),
      Chars("IT Asset ID #\n"),
      Chars("Functional Area relevant?\nyes\n"),
      Chars("Functional Area relevant? no\n"),
      Chars("upload the entitlement composition: yes\n"),
      <<>> }

ExtractFields == {"cms_id", "it_asset_id", "fa_value", "upload_value"}

ExtractInputs ==
    { [fn |-> "find_first_value_after_labels", lines |-> ls, labels |-> lv,
       text |-> <<>>, doc |-> <<>>, field |-> ""] :
          ls \in ExtractLineLists, lv \in LabelVariants }
    \cup { [fn |-> "_extract_value_from_text", lines |-> <<>>, labels |-> lv,
            text |-> t, doc |-> <<>>, field |-> ""] :
               t \in {TextOfLines(ls) : ls \in ExtractLineLists} \cup {ValueExampleText},
               lv \in LabelVariants }
    \cup { [fn |-> "validate", lines |-> <<>>, labels |-> <<>>, text |-> <<>>,
            doc |-> d, field |-> f] :
               d \in UNION {[1..n -> DocPageTexts] : n \in 1..MaxDocPages},
               f \in ExtractFields }

InitExtract ==
    /\ IdleExcept("extract")
    /\ ex_in \in ExtractInputs
    /\ ex_out = <<>>

\* v = find_first_value_after_labels(lines, labels)
FindFirstValueAfterLabels ==
    /\ Frame("extract")
    /\ ex_in.fn = "find_first_value_after_labels"
    /\ ex_out = <<>>
    /\ ex_out' = <<[value |-> find_first_value_after_labels(ex_in.lines, ex_in.labels),
                    consulted |-> <<"per_page">>]>>
    /\ UNCHANGED ex_in

\* v = _extract_value_from_text(text, label_variants)
ExtractValueFromText ==
    /\ Frame("extract")
    /\ ex_in.fn = "_extract_value_from_text"
    /\ ex_out = <<>>
    /\ ex_out' = <<[value |-> extract_value_from_text(ex_in.text, ex_in.labels),
                    consulted |-> <<"generic">>]>>
    /\ UNCHANGED ex_in

\* validate(): the value of one field of sections 1.1 and 4.1
ResolveField ==
    /\ Frame("extract")
    /\ ex_in.fn = "validate"
    /\ ex_out = <<>>
    /\ ex_out' = <<resolve_field(ex_in.doc, ex_in.field)>>
    /\ UNCHANGED ex_in

NextExtract == FindFirstValueAfterLabels \/ ExtractValueFromText \/ ResolveField

SpecExtract == InitExtract /\ [][NextExtract]_vars

-----------------------------------------------------------------------------
(* agent.py: _find_export_file.  A directory is <<>> (it does not exist)  *)
(* or <<the set of the names of its entries>>; a path inside the evidence  *)
(* directory is the name of its last component.  Whether names that differ *)
(* only in case are the same entry, and whether glob tells them apart, is  *)
(* the platform's choice (case_sensitive).                                 *)

\* (evidence_dir / r).exists()
PathExists(dir, r, case_sensitive) ==
    /\ dir # <<>>
    /\ \E n \in dir[1] : IF case_sensitive THEN n = r ELSE Lower(n) = Lower(r)

\* evidence_dir.glob("*.xlsx"): the entries of the directory whose names
\* match the pattern
GlobXlsx(dir, case_sensitive) ==
    {n \in dir[1] : EndsWith(IF case_sensitive THEN n ELSE Lower(n), Chars(".xlsx"))}

\* The values _find_export_file(evidence_dir, referenced_xlsx,
\* expected_suffix) can return: <<>> for None, else <<name>>.  The order in
\* which glob yields the entries is not fixed.
find_export_file(dir, referenced_xlsx, expected_suffix, case_sensitive) ==
    LET refs == {k \in DOMAIN referenced_xlsx :
                     /\ EndsWith(Lower(referenced_xlsx[k]), Lower(expected_suffix))
                     /\ PathExists(dir, referenced_xlsx[k], case_sensitive)}
        found == IF dir = <<>> THEN {}
                 ELSE {n \in GlobXlsx(dir, case_sensitive) :
                           EndsWith(Lower(n), Lower(expected_suffix))}
    IN  IF refs # {} THEN {<<referenced_xlsx[Least(refs)]>>}
        ELSE IF found # {} THEN {<<n>> : n \in found}
        ELSE {<<>>}

-----------------------------------------------------------------------------
(* Unit "export": one call of _find_export_file.                         *)

\* Names of files: two exports of the expected kind, one with the extension
\* in capitals, another workbook, a file that is no workbook.
FileNames ==
    { Chars("a S.xlsx"), Chars("b s.XLSX"), Chars("S.xlsx"), Chars("T.xlsx"),
      Chars("S.xlsx.bak") }

ExpectedSuffixes == { Chars("S.xlsx"), Chars("T.xlsx") }

InitExport ==
    /\ IdleExcept("export")
    /\ fx_in \in [dir : {<<>>} \cup {<<s>> : s \in SUBSET FileNames},
                  referenced_xlsx : UNION {[1..n -> FileNames] : n \in 0..MaxReferenced},
                  expected_suffix : ExpectedSuffixes,
                  case_sensitive : BOOLEAN]
    /\ fx_out = <<>>

\* path = _find_export_file(evidence_dir, referenced_xlsx, expected_suffix)
FindExportFile ==
    /\ Frame("export")
    /\ fx_out = <<>>
    /\ \E p \in find_export_file(fx_in.dir, fx_in.referenced_xlsx, fx_in.expected_suffix,
                                 fx_in.case_sensitive) :
          fx_out' = <<[path |-> p]>>
    /\ UNCHANGED fx_in

NextExport == FindExportFile

SpecExport == InitExport /\ [][NextExport]_vars

-----------------------------------------------------------------------------
(* excel_checks.py and agent.py: the required-columns checks over a       *)
(* spreadsheet table.  A table (DataFrame) is its column names in order   *)
(* and its rows; a row gives a cell for every column name, of which only   *)
(* those of the table's columns are part of the table.  A cell is None,    *)
(* NaN, a str or a number, with the text that astype(str) makes of it.     *)

NoneCell == [kind |-> "none", text |-> Chars("None")]

NaNCell == [kind |-> "nan", text |-> Chars("nan")]

StrCell(s) == [kind |-> "str", text |-> Chars(s)]

NumCell(n) == [kind |-> "num", text |-> Chars(ToString(n))]

\* Series.notna() for one cell
notna(cell) == cell.kind \notin {"none", "nan"}

\* s.fillna("").astype(str) for one cell
FillnaStr(cell) == IF notna(cell) THEN cell.text ELSE <<>>

\* A mutation of non_empty_series: the text is not trimmed.
non_empty_series_untrimmed(cell) == FillnaStr(cell) # <<>>

\* non_empty_series(s), for one cell of the series
non_empty_series(cell) == Strip(FillnaStr(cell)) # <<>>

\* [c for c in cols if c not in df.columns]
MissingColumns(df, cols) == SelectSeq(cols, LAMBDA c : c \notin Range(df.columns))

\* [c for c in cols if c in df.columns]
PresentColumns(df, cols) == SelectSeq(cols, LAMBDA c : c \in Range(df.columns))

\* list(dict.fromkeys(cols)): the first occurrence of every name
RECURSIVE DictFromKeys(_)
DictFromKeys(cols) ==
    IF cols = <<>> THEN <<>>
    ELSE LET init == DictFromKeys(SubSeq(cols, 1, Len(cols) - 1))
             last == cols[Len(cols)]
         IN  IF last \in Range(init) THEN init ELSE Append(init, last)

\* df.head(n) on a sequence of rows
DfHead(xs, n) == IF n >= 0 THEN Take(xs, n) ELSE SubSeq(xs, 1, Len(xs) + n)

\* failing[cols].to_dict(orient="records")
ToRecords(rows, cols) == [i \in DOMAIN rows |-> [c \in Range(cols) |-> rows[i][c]]]

\* The rows of df at which the mask is false: df.loc[~mask]
FailingRows(df, mask) ==
    LET idx == SelectSeq([i \in DOMAIN df.rows |-> i], LAMBDA i : ~mask[i])
    IN  [k \in DOMAIN idx |-> df.rows[idx[k]]]

\* ExcelCheckFinding(total_rows, failing_rows, sample_rows)
ExcelCheckFinding(total_rows, failing_rows, sample_rows) ==
    [total_rows |-> total_rows, failing_rows |-> failing_rows, sample_rows |-> sample_rows]

\* check_required_columns_non_empty(df, required_cols, id_col, max_samples)
check_required_columns_non_empty(df, required_cols, id_col, max_samples) ==
    LET missing == MissingColumns(df, required_cols)
        mask == [i \in DOMAIN df.rows |->
                     \A k \in DOMAIN required_cols :
                         non_empty_series(df.rows[i][required_cols[k]])]
        failing == FailingRows(df, mask)
        cols == PresentColumns(df, DictFromKeys(id_col \o required_cols))
    IN  IF missing # <<>>
        THEN ExcelCheckFinding(Len(df.rows), Len(df.rows),
                               <<[error |-> <<"Missing columns", missing>>]>>)
        ELSE ExcelCheckFinding(Len(df.rows), Len(failing),
                               IF failing # <<>> /\ df.columns # <<>>
                               THEN ToRecords(DfHead(failing, max_samples), cols)
                               ELSE <<>>)

base_required == <<"Display name", "Description", "Tier Level">>

OwnerColumns == <<"IT Role Owner", "cust_owner", "Application Owner">>

\* f"Missing required columns: {missing_base}"
RECURSIVE ListRepr(_)
ListRepr(names) ==
    IF names = <<>> THEN ""
    ELSE "'" \o names[1] \o "'" \o (IF Len(names) > 1 THEN ", " ELSE "")
             \o ListRepr(Tail(names))

MissingColumnsMessage(missing_base) ==
    "Missing required columns: [" \o ListRepr(missing_base) \o "]"

\* validate(), section 4.2: the required master data of the IT Role Services
\* table, with the owner fallback.  rows_ok is the series ok of the code.
owner_fallback_check(df, m, ratio_tol, abs_tol, severity) ==
    LET missing_base == MissingColumns(df, base_required)
        owner_cols == PresentColumns(df, OwnerColumns)
        base_ok(i) == /\ non_empty_series(df.rows[i]["Display name"])
                      /\ non_empty_series(df.rows[i]["Description"])
                      /\ notna(df.rows[i]["Tier Level"])
        owner_ok(i) == IF owner_cols # <<>>
                       THEN \E k \in DOMAIN owner_cols :
                                Strip(FillnaStr(df.rows[i][owner_cols[k]])) # <<>>
                       ELSE TRUE
        ok == [i \in DOMAIN df.rows |-> base_ok(i) /\ owner_ok(i)]
        failing == FailingRows(df, ok)
    IN  IF missing_base # <<>>
        THEN [missing_base |-> missing_base, owner_cols_used |-> <<>>, rows_ok |-> <<>>,
              samples |-> <<>>,
              check |-> CheckResult("S4.2-EX-01",
                                    "IT Role Services: required master data filled",
                                    IF m THEN "MET" ELSE "NOT_MET",
                                    IF m THEN "major" ELSE "critical",
                                    IF m THEN "MVP: missing columns but not blocking."
                                    ELSE MissingColumnsMessage(missing_base))]
        ELSE [missing_base |-> <<>>, owner_cols_used |-> owner_cols, rows_ok |-> ok,
              samples |-> ToRecords(DfHead(failing, 5),
                                    PresentColumns(df, base_required \o owner_cols)),
              check |-> simple_threshold_check(
                            "S4.2-EX-01",
                            "IT Role Services: required master data filled (base + owner fallback)",
                            Len(failing), Len(df.rows), severity, m, ratio_tol, abs_tol)]

\* len(d) < 8 in meaningful_description
MinDescriptionLength == 8

\* The placeholders of meaningful_description
Placeholders == {Chars("..."), Chars("tbd"), Chars("n/a"), Chars("na")}

\* A mutation of meaningful_description: the display name is compared as
\* written, without lower().
meaningful_description_case_sensitive(desc, display_name) ==
    LET d == Strip(desc)
    IN  /\ d # <<>>
        /\ ~(Len(d) < MinDescriptionLength)
        /\ ~(display_name # <<>> /\ Strip(d) = Strip(display_name))
        /\ Strip(d) \notin Placeholders

\* meaningful_description(desc, display_name): the early returns in order
meaningful_description(desc, display_name) ==
    LET d == Strip(desc)
    IN  IF d = <<>> THEN FALSE
        ELSE IF Len(d) < MinDescriptionLength THEN FALSE
        ELSE IF display_name # <<>> /\ Lower(Strip(d)) = Lower(Strip(display_name))
             THEN FALSE
        ELSE IF Strip(d) \in Placeholders THEN FALSE
        ELSE TRUE

\* check_meaningful_descriptions(df, display_col, desc_col, max_samples)
check_meaningful_descriptions(df, display_col, desc_col, max_samples) ==
    LET missing == MissingColumns(df, <<display_col, desc_col>>)
        ok == [i \in DOMAIN df.rows |->
                   meaningful_description(FillnaStr(df.rows[i][desc_col]),
                                          FillnaStr(df.rows[i][display_col]))]
        failing == FailingRows(df, ok)
    IN  IF missing # <<>>
        THEN ExcelCheckFinding(Len(df.rows), Len(df.rows),
                               <<[error |-> <<"Missing columns", missing>>]>>)
        ELSE ExcelCheckFinding(Len(df.rows), Len(failing),
                               IF failing # <<>>
                               THEN ToRecords(DfHead(failing, max_samples),
                                              <<display_col, desc_col>>)
                               ELSE <<>>)

-----------------------------------------------------------------------------
(* Unit "table": one required-columns check over one table.              *)

TableRow(dn, de, tl, o1, o2, o3) ==
    [c \in Range(base_required) \cup Range(OwnerColumns) |->
        CASE c = "Display name" -> dn
          [] c = "Description" -> de
          [] c = "Tier Level" -> tl
          [] c = "IT Role Owner" -> o1
          [] c = "cust_owner" -> o2
          [] c = "Application Owner" -> o3]

\* Rows: all filled; a blank name; a NaN description; a blank tier level; no
\* tier level; the tier level 0 without any owner; an owner only in the
\* second owner column.
TableRows ==
    { TableRow(StrCell("x"), StrCell("x"), StrCell("x"), StrCell("x"), StrCell("x"), StrCell("x")),
      TableRow(StrCell(" "), StrCell("x"), StrCell("x"), StrCell("x"), NoneCell, NoneCell),
      TableRow(StrCell("x"), NaNCell, StrCell("x"), StrCell("x"), StrCell("x"), StrCell("x")),
      TableRow(StrCell("x"), StrCell("x"), StrCell(" "), StrCell("x"), StrCell("x"), StrCell("x")),
      TableRow(StrCell("x"), StrCell("x"), NoneCell, StrCell("x"), StrCell("x"), StrCell("x")),
      TableRow(StrCell("x"), StrCell("x"), NumCell(0), NaNCell, StrCell(" "), NoneCell),
      TableRow(StrCell("x"), StrCell(" x "), StrCell("x"), NaNCell, StrCell("x"), StrCell(" ")) }

\* The columns of the table: the base columns with none, one, two or all of
\* the owner columns; tables without the tier level.
TableColumns ==
    { base_required,
      base_required \o <<"IT Role Owner">>,
      base_required \o <<"cust_owner", "Application Owner">>,
      base_required \o OwnerColumns,
      <<"Display name", "Description">>,
      <<"Display name", "Description", "IT Role Owner">> }

Tables ==
    [columns : TableColumns, rows : UNION {[1..n -> TableRows] : n \in 0..MaxTableRows}]

DescriptionRow(dn, de) == TableRow(dn, de, StrCell("x"), NoneCell, NoneCell, NoneCell)

\* Rows for the meaningful-description check: a real description; empty,
\* blank and NaN descriptions; placeholders; a short one; one that is short
\* only after trimming; copies of the display name in another case and of a
\* display name written with surrounding blanks; a description of exactly
\* the minimum length beside an empty and beside a NaN display name; a
\* description that extends the display name.
DescriptionRows ==
    { DescriptionRow(StrCell("Admin"), StrCell("Grants admin access")),
      DescriptionRow(StrCell("Admin"), StrCell("")),
      DescriptionRow(StrCell("Admin"), StrCell("   ")),
      DescriptionRow(StrCell("Admin"), NaNCell),
      DescriptionRow(StrCell("Admin"), StrCell("tbd")),
      DescriptionRow(StrCell("Admin"), StrCell("...")),
      DescriptionRow(StrCell("Admin"), StrCell("short")),
      DescriptionRow(StrCell("Admin"), StrCell("  padded  ")),
      DescriptionRow(StrCell("Admin role"), StrCell("admin ROLE")),
      DescriptionRow(StrCell(" Admin role "), StrCell("Admin role")),
      DescriptionRow(StrCell(""), StrCell("12345678")),
      DescriptionRow(NaNCell, StrCell("Read only")),
      DescriptionRow(StrCell("Admin role"), StrCell("Admin role.")) }

\* Tables with both columns, and tables without one of them.
DescriptionTables ==
    [columns : {<<"Display name", "Description">>, base_required,
                <<"Description">>, <<"Display name", "Tier Level">>},
     rows : UNION {[1..n -> DescriptionRows] : n \in 0..MaxTableRows}]

InitTable ==
    /\ IdleExcept("table")
    /\ \/ tb_in \in [fn : {"check_required_columns_non_empty"}, df : Tables,
                     required_cols : {base_required, <<"IT Role Owner">>},
                     id_col : {<<>>, <<"Display name">>},
                     max_samples : 0..MaxSamples,
                     mvp : {FALSE}, abs_tol : {0}]
       \/ tb_in \in [fn : {"validate"}, df : Tables,
                     required_cols : {base_required}, id_col : {<<>>}, max_samples : {5},
                     mvp : BOOLEAN, abs_tol : {0, 5}]
       \/ tb_in \in [fn : {"check_meaningful_descriptions"}, df : DescriptionTables,
                     display_col : {"Display name"}, desc_col : {"Description"},
                     max_samples : 0..MaxSamples]
    /\ tb_out = <<>>

\* f = check_required_columns_non_empty(df, required_cols, id_col, max_samples)
CheckRequiredColumnsNonEmpty ==
    /\ Frame("table")
    /\ tb_in.fn = "check_required_columns_non_empty"
    /\ tb_out = <<>>
    /\ tb_out' = <<check_required_columns_non_empty(tb_in.df, tb_in.required_cols,
                                                    tb_in.id_col, tb_in.max_samples)>>
    /\ UNCHANGED tb_in

\* validate(): sec42_checks.append(... S4.2-EX-01 ...), with the default
\* ratio_tol of itroles_required
OwnerFallbackCheck ==
    /\ Frame("table")
    /\ tb_in.fn = "validate"
    /\ tb_out = <<>>
    /\ tb_out' = <<owner_fallback_check(tb_in.df, tb_in.mvp, <<1, 100>>, tb_in.abs_tol,
                                        "critical")>>
    /\ UNCHANGED tb_in

\* f2 = check_meaningful_descriptions(df, "Display name", "Description")
CheckMeaningfulDescriptions ==
    /\ Frame("table")
    /\ tb_in.fn = "check_meaningful_descriptions"
    /\ tb_out = <<>>
    /\ tb_out' = <<check_meaningful_descriptions(tb_in.df, tb_in.display_col,
                                                 tb_in.desc_col, tb_in.max_samples)>>
    /\ UNCHANGED tb_in

NextTable ==
    CheckRequiredColumnsNonEmpty \/ OwnerFallbackCheck \/ CheckMeaningfulDescriptions

SpecTable == InitTable /\ [][NextTable]_vars

-----------------------------------------------------------------------------
(* agent.py: _pdf_text_and_ocr_meta, the text of one evidence PDF.         *)

\* text_ok = text_chars >= max(0, int(min_chars))
text_ok_of(text_chars, min_chars) == text_chars >= Max(0, min_chars)

\* A mutation of ocr_required: the image count is not looked at.
ocr_required_any_images(text_ok, image_count, ocr_image_threshold) ==
    ~text_ok

\* ocr_required = (not text_ok) and (image_count >= max(0, int(ocr_image_threshold)))
ocr_required(text_ok, image_count, ocr_image_threshold) ==
    ~text_ok /\ image_count >= Max(0, ocr_image_threshold)

\* meta as _pdf_text_and_ocr_meta builds it before it decides about OCR.
EvidenceMeta0(in, required) ==
    [page_count |-> in.page_count, text_chars |-> in.text_chars,
     image_count |-> in.image_count, ocr_enabled |-> in.ocr,
     ocr_required |-> required, ocr_available |-> FALSE, ocr_attempted |-> FALSE,
     ocr_succeeded |-> FALSE, ocr_cache_hit |-> FALSE,
     text_chars_after_ocr |-> <<>>, error |-> in.error]

\* _pdf_text_and_ocr_meta(pdf_path, min_chars, ocr_image_threshold, ocr=..., ...):
\* (text_ok, meta) or that it raised, and the OCR calls it made.
pdf_text_and_ocr_meta(in, env) ==
    LET text_ok == text_ok_of(in.text_chars, in.min_chars)
        required == ocr_required(text_ok, in.image_count, in.ocr_image_threshold)
        meta == EvidenceMeta0(in, required)
    IN  IF in.ocr /\ required
        THEN IF in.ocr_max_pages = <<>>
             THEN [raised |-> TRUE, text_ok |-> FALSE, meta |-> <<>>, calls |-> <<>>]
             ELSE LET pages == RangeSeq(Min(in.ocr_max_pages[1], in.page_count))
                      r == ocr_pdf_pages_best_effort(in.page_count, in.ocr_max_pages,
                                                     <<pages>>, env)
                      call == [pages |-> pages, max_pages |-> in.ocr_max_pages,
                               raised |-> r.raised]
                      ocr_chars == SumValues(r.ocr_pages)
                  IN  IF r.raised
                      THEN [raised |-> TRUE, text_ok |-> FALSE, meta |-> <<>>,
                            calls |-> <<call>>]
                      ELSE [raised |-> FALSE,
                            text_ok |-> text_ok \/ ocr_chars >= Max(0, in.min_chars),
                            meta |-> [meta EXCEPT
                                        !.ocr_enabled = TRUE,
                                        !.ocr_available = r.meta.ocr_available,
                                        !.ocr_attempted = r.meta.ocr_attempted,
                                        !.ocr_cache_hit = r.meta.ocr_cache_hit,
                                        !.text_chars_after_ocr = <<ocr_chars>>,
                                        !.ocr_succeeded =
                                            ocr_chars > 0 /\ r.meta.ocr_succeeded,
                                        !.error = IF r.meta.error # "" THEN r.meta.error
                                                  ELSE meta.error],
                            calls |-> <<call>>]
        ELSE [raised |-> FALSE, text_ok |-> text_ok,
              meta |-> [meta EXCEPT !.ocr_available = FALSE, !.ocr_attempted = FALSE],
              calls |-> <<>>]

-----------------------------------------------------------------------------
(* Unit "evidence": one call of _pdf_text_and_ocr_meta.                    *)

\* What the PDF libraries find in an evidence PDF: the length of its native
\* text, its number of pages, its number of embedded images, and the error of
\* a PDF that cannot be read (no text and no pages then).
EvidencePdfs ==
    { [text_chars |-> tc, page_count |-> pc, image_count |-> ic, error |-> ""] :
          tc \in {0, 50, 400}, pc \in 1..MaxEvidencePages, ic \in {0, 1, 5} }
    \cup
    { [text_chars |-> 0, page_count |-> 0, image_count |-> ic, error |-> e] :
          ic \in {0, 1}, e \in {"", "text_extract_error"} }

\* rules.pdf_evidence.ocr_image_threshold
OcrImageThresholds == {-1, 1, 3}

\* rules.pdf_evidence.min_text_chars as the evidence check passes it
EvidenceMinChars == {-1, 200}

InitEvidence ==
    /\ IdleExcept("evidence")
    /\ \E o \in BOOLEAN, d \in EvidencePdfs, mc \in EvidenceMinChars,
          th \in OcrImageThresholds, mp \in OcrMaxPagesArgs :
          ev_in = [ocr |-> o, text_chars |-> d.text_chars, page_count |-> d.page_count,
                   image_count |-> d.image_count, error |-> d.error,
                   min_chars |-> mc, ocr_image_threshold |-> th,
                   ocr_max_pages |-> mp]
    /\ ev_ocr_calls = <<>>
    /\ ev_out = <<>>

PdfTextAndOcrMeta ==
    /\ Frame("evidence")
    /\ ev_out = <<>>
    /\ \E env \in OcrEnvs :
          LET r == pdf_text_and_ocr_meta(ev_in, env)
          IN  /\ ev_out' = <<[raised |-> r.raised, text_ok |-> r.text_ok, meta |-> r.meta]>>
              /\ ev_ocr_calls' = r.calls
    /\ UNCHANGED ev_in

NextEvidence == PdfTextAndOcrMeta

SpecEvidence == InitEvidence /\ [][NextEvidence]_vars

-----------------------------------------------------------------------------
(* rules.py: load_rules.  The YAML document is a mapping that holds only   *)
(* the keys written in the file: a record whose domain is those keys.     *)
(* <<>> is the empty mapping.  The rules file is <<>> when no file exists *)
(* at the path, else <<the document>>.  A call either returns a value or  *)
(* raises.                                                                *)

Returned(v) == [kind |-> "returned", value |-> v]

Raised(e) == [kind |-> "raised", error |-> e]

\* block.get(key, default)
Get(block, key, default) == IF key \in DOMAIN block THEN block[key] ELSE default

\* str(block[key]) if key in block and block[key] is not None else None
GetOptional(block, key) == IF key \in DOMAIN block THEN <<block[key]>> ELSE <<>>

\* _excel_rule(block, default_ratio, default_abs, default_sev)
excel_rule(block, default_ratio, default_abs, default_sev) ==
    [ratio_tol |-> Get(block, "ratio_tol", default_ratio),
     abs_tol |-> Get(block, "abs_tol", default_abs),
     severity |-> Get(block, "severity", default_sev),
     mvp_severity |-> GetOptional(block, "mvp_severity"),
     non_mvp_severity |-> GetOptional(block, "non_mvp_severity")]

\* int(pdf.get(key, default) or default)
IntOrDefault(block, key, default) ==
    IF Get(block, key, default) = 0 THEN default ELSE Get(block, key, default)

\* The content rules of one file as load_rules keeps them: the entries
\* with an id, the name defaulting to the id.
ParsedContentRules(rules_list) ==
    LET kept == SelectSeq(rules_list, LAMBDA r : Get(r, "id", "") # "")
    IN  [k \in DOMAIN kept |->
            [id |-> kept[k].id,
             name |-> IF Get(kept[k], "name", "") # "" THEN kept[k].name ELSE kept[k].id,
             type |-> Get(kept[k], "type", "regex"),
             pattern |-> Get(kept[k], "pattern", ""),
             contains |-> Get(kept[k], "contains", ""),
             severity |-> Get(kept[k], "severity", "major")]]

\* load_rules(rules_path): path.read_text raises when there is no file.
load_rules(rules_file) ==
    IF rules_file = <<>> THEN Raised("FileNotFoundError")
    ELSE LET data == rules_file[1]
             pdf == Get(data, "pdf_evidence", <<>>)
             raw_cr == Get(pdf, "content_rules", <<>>)
             parsed == [k \in DOMAIN raw_cr |->
                            [file |-> raw_cr[k].file,
                             rules |-> ParsedContentRules(raw_cr[k].rules)]]
             ex == Get(data, "excel_thresholds", <<>>)
         IN  Returned(
               [pdf_evidence |->
                    [required_files |-> Get(pdf, "required_files", <<>>),
                     min_text_chars |-> IntOrDefault(pdf, "min_text_chars", 200),
                     ocr_image_threshold |-> IntOrDefault(pdf, "ocr_image_threshold", 1),
                     content_rules |-> SelectSeq(parsed, LAMBDA e : e.rules # <<>>)],
                entitlements_required |->
                    excel_rule(Get(ex, "entitlements_required", <<>>), <<1, 10>>, 50, "major"),
                entitlements_descriptions |->
                    excel_rule(Get(ex, "entitlements_descriptions", <<>>), <<1, 10>>, 50, "major"),
                itroles_required |->
                    excel_rule(Get(ex, "itroles_required", <<>>), <<1, 100>>, 5, "major"),
                itroles_descriptions |->
                    excel_rule(Get(ex, "itroles_descriptions", <<>>), <<1, 100>>, 5, "major")])

-----------------------------------------------------------------------------
(* agent.py: the checks validate() builds.  The inputs of a run are its    *)
(* mode flags, the rules file, what the extractors found in the DAC PDF,  *)
(* the evidence directory and what reading its files gives.               *)

\* _presence_check(check_id, name, value, severity)
presence_check(check_id, name, value, severity) ==
    IF value # <<>> /\ Strip(value[1]) # <<>>
    THEN CheckResult(check_id, name, "MET", severity, "")
    ELSE CheckResult(check_id, name, "NOT_MET", severity, "Value missing or empty.")

\* A mutation of _yn_check: lenient is not looked at.
yn_check_ignores_lenient(check_id, name, yn, severity, lenient) ==
    IF yn \in {<<"yes">>, <<"no">>}
    THEN CheckResult(check_id, name, "MET", severity, "")
    ELSE CheckResult(check_id, name, "NOT_MET", severity,
                     "Expected yes/no but value is missing or not parseable.")

\* A mutation of _yn_check: in lenient mode a missing answer is met in part.
yn_check_partially_met(check_id, name, yn, severity, lenient) ==
    IF yn \in {<<"yes">>, <<"no">>}
    THEN CheckResult(check_id, name, "MET", severity, "")
    ELSE IF lenient
    THEN CheckResult(check_id, name, "PARTIALLY_MET", severity,
                     "Missing/unparseable yes/no in DAC PDF (lenient mode).")
    ELSE CheckResult(check_id, name, "NOT_MET", severity,
                     "Expected yes/no but value is missing or not parseable.")

\* _yn_check(check_id, name, yn, severity, lenient)
yn_check(check_id, name, yn, severity, lenient) ==
    IF yn \in {<<"yes">>, <<"no">>}
    THEN CheckResult(check_id, name, "MET", severity, "")
    ELSE IF lenient
    THEN CheckResult(check_id, name, "SKIPPED", severity,
                     "Missing/unparseable yes/no in DAC PDF (lenient mode).")
    ELSE CheckResult(check_id, name, "NOT_MET", severity,
                     "Expected yes/no but value is missing or not parseable.")

\* _find_export_file(...) is not None
ExportFound(inp, expected_suffix) ==
    find_export_file(inp.evidence_dir, inp.referenced_xlsx, Chars(expected_suffix),
                     inp.case_sensitive) # {<<>>}

\* _file_exists(check_id, name, file_path, severity)
file_exists(check_id, name, found, severity) ==
    IF found
    THEN CheckResult(check_id, name, "MET", severity, "")
    ELSE CheckResult(check_id, name, "NOT_MET", severity, "Required file not found.")

\* _export_exists_check(check_id, name, referenced_xlsx, evidence_dir,
\*                      expected_suffix, severity)
export_exists_check(check_id, name, inp, expected_suffix, severity) ==
    LET referenced == \E k \in DOMAIN inp.referenced_xlsx :
                          EndsWith(Lower(inp.referenced_xlsx[k]),
                                   Lower(Chars(expected_suffix)))
    IN  IF ExportFound(inp, expected_suffix)
        THEN CheckResult(check_id, name, "MET", severity, "")
        ELSE CheckResult(check_id, name, "NOT_MET", severity,
                         "Export file not found in evidence directory."
                             \o (IF referenced THEN " (Referenced by DAC PDF.)" ELSE ""))

\* f"{idx:02d}"
TwoDigits(idx) == IF idx < 10 THEN "0" \o ToString(idx) ELSE ToString(idx)

\* validate(), section 1.1
sec11_checks(inp) ==
    Returned(<<presence_check("S1.1-01", "CMS Product ID present", inp.cms_id, "major"),
               presence_check("S1.1-02", "IT Asset ID present", inp.it_asset_id, "major"),
               presence_check("S1.1-03", "IT Asset Name present", inp.it_asset_name,
                              "major")>>)

\* validate(), section 2.0, first loop: the check of one required file
EvidencePdfPresent(inp, idx, fname) ==
    LET check_id == "S2.0-" \o TwoDigits(idx)
        name == "Evidence PDF present: " \o fname
    IN  IF PathExists(inp.evidence_dir, Chars(fname), inp.case_sensitive)
        THEN CheckResult(check_id, name, "MET", "major", "")
        ELSE IF inp.mvp
        THEN CheckResult(check_id, name, "SKIPPED", "major",
                         "MVP: evidence PDF missing; skipping.")
        ELSE CheckResult(check_id, name, "NOT_MET", "major",
                         "Evidence PDF not found in evidence directory.")

\* A mutation of the second loop of section 2.0: the check takes the id of
\* the presence check, without the suffix.
EvidencePdfText_same_id(inp, idx, fname) ==
    LET check_id == "S2.0-" \o TwoDigits(idx)
        name == "Evidence PDF has extractable text: " \o fname
    IN  IF inp.pdf_text.ok_text
        THEN CheckResult(check_id, name, "MET", "major", "")
        ELSE IF inp.mvp
        THEN CheckResult(check_id, name, "MET", "major", "MVP warning")
        ELSE CheckResult(check_id, name, "NOT_MET", "major", "")

\* validate(), section 2.0, second loop: the check of one existing file;
\* inp.pdf_text is what _pdf_text_and_ocr_meta returns for the file.
EvidencePdfText(inp, idx, fname) ==
    LET check_id == "S2.0-" \o TwoDigits(idx) \o "-TXT"
        name == "Evidence PDF has extractable text: " \o fname
        msg == IF inp.pdf_text.ocr_required
               THEN "OCR required: PDF appears scanned/image-based (no/low extractable text)."
               ELSE "PDF has very little/no extractable text."
    IN  IF inp.pdf_text.ok_text
        THEN CheckResult(check_id, name, "MET", "major", "")
        ELSE IF inp.mvp
        THEN CheckResult(check_id, name, "MET", "major", "MVP warning: " \o msg)
        ELSE CheckResult(check_id, name, "NOT_MET", "major", msg)

\* validate(), section 2.0.  No check is built from rules.pdf_evidence.content_rules.
sec20_checks(inp, rules) ==
    LET expected_pdfs == rules.pdf_evidence.required_files
        existing == SelectSeq([i \in DOMAIN expected_pdfs |-> i],
                              LAMBDA i : PathExists(inp.evidence_dir, Chars(expected_pdfs[i]),
                                                    inp.case_sensitive))
    IN  Returned([i \in DOMAIN expected_pdfs |-> EvidencePdfPresent(inp, i, expected_pdfs[i])]
                 \o [k \in DOMAIN existing |->
                        EvidencePdfText(inp, existing[k], expected_pdfs[existing[k]])])

expected_41 == <<"Entitlement Services.xlsx", "All Entitlements.xlsx">>

\* sev = (mvp_severity if mvp else non_mvp_severity) or severity
RequiredSeverity(r, mvp_mode) ==
    LET s == IF mvp_mode THEN r.mvp_severity ELSE r.non_mvp_severity
    IN  IF s # <<>> /\ s[1] # "" THEN s[1] ELSE r.severity

\* x or default, for an Optional[str]
OrDefault(s, default) == IF s # <<>> /\ s[1] # "" THEN s[1] ELSE default

\* df[col].fillna("").astype(str).str.strip().ne("").sum() > 0, when the
\* table has the column
ColumnPopulated(df, col) ==
    /\ col \in Range(df.columns)
    /\ \E i \in DOMAIN df.rows : non_empty_series(df.rows[i][col])

\* validate(), section 4.1.  inp.workbooks gives for each export what
\* read_excel_first_sheet returns for it; <<>> when it raises.
sec41_checks(inp, rules) ==
    LET yn == <<yn_check("S4.1-01", "SoD relevancy recorded (yes/no)", inp.sod_value,
                         "critical", inp.lenient),
                yn_check("S4.1-02", "Functional Area relevancy recorded (yes/no)",
                         inp.fa_value, "major", inp.lenient),
                yn_check("S4.1-03",
                         "Entitlement composition upload decision recorded (yes/no)",
                         inp.upload_value, "major", inp.lenient)>>
        exports == [i \in DOMAIN expected_41 |->
                       export_exists_check("S4.1-F" \o TwoDigits(i),
                                           "Export present: " \o expected_41[i],
                                           inp, expected_41[i], "major")]
        es_path == ExportFound(inp, "Entitlement Services.xlsx")
        ae_path == ExportFound(inp, "All Entitlements.xlsx")
        df_es == inp.workbooks.es[1]
        df_ae == inp.workbooks.ae[1]
        req == rules.entitlements_required
        desc == rules.entitlements_descriptions
        master == IF es_path
                  THEN <<excel_finding_check_threshold(
                             "S4.1-EX-01", "Entitlement Services: required master data filled",
                             check_required_columns_non_empty(
                                 df_es, <<"Display name", "Description", "SoD Area",
                                          "Tier Level">>, <<"Display name">>, 5),
                             RequiredSeverity(req, inp.mvp), inp.mvp, req.ratio_tol,
                             req.abs_tol),
                         excel_finding_check_threshold(
                             "S4.1-EX-02", "Entitlement Services: descriptions are meaningful",
                             check_meaningful_descriptions(df_es, "Display name",
                                                           "Description", 5),
                             desc.severity, inp.mvp, desc.ratio_tol, desc.abs_tol)>>
                  ELSE <<CheckResult(
                             "S4.1-EX-01", "Entitlement Services: required master data filled",
                             "SKIPPED",
                             IF inp.mvp THEN OrDefault(req.mvp_severity, "major")
                             ELSE OrDefault(req.non_mvp_severity, "critical"),
                             "Skipped because Entitlement Services export was not found.")>>
        fa_ok == \/ es_path /\ ColumnPopulated(df_es, "Functional Area")
                 \/ ae_path /\ ColumnPopulated(df_ae, "DBG Functional Area")
        fa == IF inp.fa_value = <<"yes">>
              THEN <<CheckResult(
                         "S4.1-EX-FA",
                         "Functional Area populated when FA relevancy = yes (Entitlement Services OR All Entitlements)",
                         IF fa_ok \/ inp.mvp THEN "MET" ELSE "NOT_MET",
                         IF inp.mvp THEN "major" ELSE "critical",
                         IF fa_ok THEN ""
                         ELSE IF inp.mvp THEN "MVP: Treating as warning."
                         ELSE "FA relevancy is yes, but Functional Area is empty in both Entitlement Services and All Entitlements.")>>
              ELSE <<>>
    IN  IF es_path /\ inp.workbooks.es = <<>> THEN Raised("read_excel_first_sheet")
        ELSE IF inp.fa_value = <<"yes">> /\ ae_path /\ inp.workbooks.ae = <<>>
        THEN Raised("read_excel_first_sheet")
        ELSE Returned(yn \o exports \o master \o fa)

expected_42 == <<"IT Role Services.xlsx", "All my Roles.xlsx",
                 "All my Application Roles.xlsx",
                 "All my IT Roles without Application Role.xlsx">>

\* validate(), section 4.2
sec42_checks(inp, rules) ==
    LET yn == <<yn_check("S4.2-01", "CIF (critical & important function) recorded (yes/no)",
                         inp.cif_value, "major", inp.lenient)>>
        exports == [i \in DOMAIN expected_42 |->
                       export_exists_check("S4.2-F" \o TwoDigits(i),
                                           "Export present: " \o expected_42[i],
                                           inp, expected_42[i], "major")]
        itrs_path == ExportFound(inp, "IT Role Services.xlsx")
        df == inp.workbooks.itrs[1]
        req == rules.itroles_required
        desc == rules.itroles_descriptions
        master == IF itrs_path
                  THEN <<owner_fallback_check(df, inp.mvp, req.ratio_tol, req.abs_tol,
                                              RequiredSeverity(req, inp.mvp)).check,
                         excel_finding_check_threshold(
                             "S4.2-EX-02", "IT Role Services: descriptions are meaningful",
                             check_meaningful_descriptions(df, "Display name",
                                                           "Description", 5),
                             desc.severity, inp.mvp, desc.ratio_tol, desc.abs_tol)>>
                  ELSE <<CheckResult(
                             "S4.2-EX-01", "IT Role Services: required master data filled",
                             "SKIPPED", IF inp.mvp THEN "major" ELSE "critical",
                             "Skipped because IT Role Services export was not found.")>>
    IN  IF itrs_path /\ inp.workbooks.itrs = <<>> THEN Raised("read_excel_first_sheet")
        ELSE Returned(yn \o exports \o master)

\* validate(), section 4.3
sec43_checks(inp) ==
    LET name == "Export present: Special Accounts Services.xlsx"
    IN  Returned(
          IF inp.mvp
          THEN IF ExportFound(inp, "Special Accounts Services.xlsx")
               THEN <<CheckResult("S4.3-01", name, "MET", "major", "")>>
               ELSE <<CheckResult("S4.3-01", name, "SKIPPED", "major",
                                  "MVP: Special Accounts export not provided; skipping (still recommended to include for full validation).")>>
          ELSE <<export_exists_check("S4.3-01", name, inp,
                                     "Special Accounts Services.xlsx", "major")>>)

\* validate(), section 4.4
sec44_checks(inp) ==
    LET name == "Functional Area Matrix.xlsx present when SoD relevant"
    IN  Returned(
          IF inp.sod_value = <<"yes">>
          THEN <<file_exists("S4.4-01", name,
                             ExportFound(inp, "Functional Area Matrix.xlsx"), "major")>>
          ELSE <<CheckResult("S4.4-01", name, "SKIPPED", "major",
                             "Skipped because SoD relevancy is not 'yes' (or could not be extracted).")>>)

\* The checks of section k of validate(), in the order of SectionIds
SectionChecks(k, inp, rules) ==
    CASE k = 1 -> sec11_checks(inp)
      [] k = 2 -> sec20_checks(inp, rules)
      [] k = 3 -> sec41_checks(inp, rules)
      [] k = 4 -> sec42_checks(inp, rules)
      [] k = 5 -> sec43_checks(inp)
      [] k = 6 -> sec44_checks(inp)

\* validate(...): the ReviewResult it returns, or the exception that
\* leaves it.
validate(inp) ==
    LET loaded == load_rules(inp.rules_file)
        rules == loaded.value
        outcome == [k \in DOMAIN SectionIds |-> SectionChecks(k, inp, rules)]
        secs == [k \in DOMAIN SectionIds |->
                    aggregate_section(SectionIds[k], SectionNames[k], outcome[k].value)]
    IN  IF loaded.kind = "raised" THEN loaded
        ELSE IF \E k \in DOMAIN outcome : outcome[k].kind = "raised"
        THEN outcome[Least({k \in DOMAIN outcome : outcome[k].kind = "raised"})]
        ELSE Returned(ReviewResult(aggregate_overall(secs), secs,
                                   recommendations_from_sections(secs)))

-----------------------------------------------------------------------------
(* Unit "run": one run of validate() from load_rules to the assembled      *)
(* result, one step per section.                                          *)

ChapterName(k) == "Chapter" \o ToString(k) \o ".pdf"

\* Rules files: no file; an empty document; documents that require the
\* first k chapters; one that names a chapter twice; one with thresholds,
\* severities per mode and content rules, of which one has a pattern that
\* is no regular expression and one has no id.
RulesFiles ==
    { <<>>, << <<>> >> }
    \cup { <<[pdf_evidence |-> [required_files |-> [i \in 1..k |-> ChapterName(i)]]]>> :
              k \in 1..MaxRequiredFiles }
    \cup { <<[pdf_evidence |-> [required_files |-> <<ChapterName(1), ChapterName(1)>>,
                                min_text_chars |-> 0]]>>,
           <<[pdf_evidence |->
                  [required_files |-> <<ChapterName(1)>>,
                   content_rules |->
                       <<[file |-> ChapterName(1),
                          rules |-> <<[id |-> "CR-01", type |-> "regex", pattern |-> "(",
                                       severity |-> "critical"],
                                      [name |-> "no id", pattern |-> "x"]>>]>>],
              excel_thresholds |->
                  [entitlements_required |->
                       [ratio_tol |-> <<0, 1>>, abs_tol |-> 0,
                        mvp_severity |-> "minor", non_mvp_severity |-> "critical"],
                   itroles_required |-> [abs_tol |-> 0, severity |-> "critical"]]]>> }

Found(s) == <<Chars(s)>>

\* What the extractors found in the DAC PDF: everything, with all answers
\* yes; everything, with all answers no; nothing; the identifiers and two
\* of the answers; a blank identifier and the other two answers.
ExtractedValues ==
    { [cms_id |-> Found("1513344"), it_asset_id |-> Found("AID551"),
       it_asset_name |-> Found("Office"), sod_value |-> <<"yes">>, fa_value |-> <<"yes">>,
       upload_value |-> <<"yes">>, cif_value |-> <<"yes">>],
      [cms_id |-> Found("1513344"), it_asset_id |-> Found("AID551"),
       it_asset_name |-> Found("Office"), sod_value |-> <<"no">>, fa_value |-> <<"no">>,
       upload_value |-> <<"no">>, cif_value |-> <<"no">>],
      [cms_id |-> <<>>, it_asset_id |-> <<>>, it_asset_name |-> <<>>,
       sod_value |-> <<>>, fa_value |-> <<>>, upload_value |-> <<>>, cif_value |-> <<>>],
      [cms_id |-> Found("1513344"), it_asset_id |-> Found("AID551"),
       it_asset_name |-> Found("Office"), sod_value |-> <<"yes">>, fa_value |-> <<>>,
       upload_value |-> <<"yes">>, cif_value |-> <<>>],
      [cms_id |-> Found(" "), it_asset_id |-> Found("AID551"),
       it_asset_name |-> Found("Office"), sod_value |-> <<>>, fa_value |-> <<"yes">>,
       upload_value |-> <<>>, cif_value |-> <<"yes">>] }

RunColumns ==
    Range(base_required) \cup Range(OwnerColumns)
        \cup {"SoD Area", "Functional Area", "DBG Functional Area"}

\* A row of an export: name, description, tier level, SoD area, functional
\* area (under both of its column names) and owner
RunRow(dn, de, tl, sod, fa, owner) ==
    [c \in RunColumns |->
        CASE c = "Display name" -> dn
          [] c = "Description" -> de
          [] c = "Tier Level" -> tl
          [] c = "SoD Area" -> sod
          [] c = "Functional Area" -> fa
          [] c = "DBG Functional Area" -> fa
          [] c = "IT Role Owner" -> owner
          [] OTHER -> NaNCell]

GoodRow ==
    RunRow(StrCell("Admin"), StrCell("Grants admin access"), NumCell(1), StrCell("A1"),
           StrCell("Finance"), StrCell("jdoe"))

\* A row with a placeholder description and no SoD area, functional area
\* or owner
BadRow ==
    RunRow(StrCell("Reader"), StrCell("tbd"), NumCell(2), NaNCell, StrCell(" "), NaNCell)

EsColumns == <<"Display name", "Description", "SoD Area", "Tier Level", "Functional Area">>

ItrsColumns == <<"Display name", "Description", "Tier Level", "IT Role Owner">>

GoodWorkbooks ==
    [es |-> <<[columns |-> EsColumns, rows |-> <<GoodRow, GoodRow>>]>>,
     ae |-> <<[columns |-> <<"Display name", "DBG Functional Area">>, rows |-> <<GoodRow>>]>>,
     itrs |-> <<[columns |-> ItrsColumns, rows |-> <<GoodRow>>]>>]

\* Tables with a failing row, without functional areas, and (IT roles)
\* without the required columns
BadWorkbooks ==
    [es |-> <<[columns |-> EsColumns, rows |-> <<GoodRow, BadRow, BadRow>>]>>,
     ae |-> <<[columns |-> <<"Display name">>, rows |-> <<GoodRow>>]>>,
     itrs |-> <<[columns |-> <<"Display name">>, rows |-> <<GoodRow, BadRow>>]>>]

FailingWorkbooks ==
    [es |-> <<[columns |-> <<"Display name", "Description", "Tier Level">>,
               rows |-> <<BadRow>>]>>,
     ae |-> <<[columns |-> <<"Display name", "DBG Functional Area">>, rows |-> <<BadRow>>]>>,
     itrs |-> <<[columns |-> ItrsColumns, rows |-> <<GoodRow, BadRow>>]>>]

ExportNames ==
    Range(expected_41) \cup Range(expected_42)
        \cup {"Special Accounts Services.xlsx", "Functional Area Matrix.xlsx"}

Chapters == {ChapterName(k) : k \in 1..MaxRequiredFiles}

DirOf(names) == <<{Chars(n) : n \in names}>>

TextOk == [ok_text |-> TRUE, ocr_required |-> FALSE]

\* The evidence of a run: an empty directory; everything present and good;
\* everything present, the PDFs scanned and the tables with failing rows;
\* no matrix, no special accounts and only the first chapter, the PDFs with
\* little text; a referenced export that is missing; an Entitlement
\* Services file and an All Entitlements file that cannot be read.
EvidenceCases ==
    { [evidence_dir |-> DirOf({}), referenced_xlsx |-> <<>>, case_sensitive |-> TRUE,
       pdf_text |-> TextOk, workbooks |-> GoodWorkbooks],
      [evidence_dir |-> DirOf(ExportNames \cup Chapters),
       referenced_xlsx |-> <<Chars("Entitlement Services.xlsx")>>, case_sensitive |-> TRUE,
       pdf_text |-> TextOk, workbooks |-> GoodWorkbooks],
      [evidence_dir |-> DirOf(ExportNames \cup Chapters), referenced_xlsx |-> <<>>,
       case_sensitive |-> TRUE,
       pdf_text |-> [ok_text |-> FALSE, ocr_required |-> TRUE], workbooks |-> BadWorkbooks],
      [evidence_dir |-> DirOf(Range(expected_41) \cup Range(expected_42)
                                  \cup {ChapterName(1)}),
       referenced_xlsx |-> <<>>, case_sensitive |-> FALSE,
       pdf_text |-> [ok_text |-> FALSE, ocr_required |-> FALSE],
       workbooks |-> FailingWorkbooks],
      [evidence_dir |-> DirOf(Chapters \cup {"IT Role Services.xlsx"}),
       referenced_xlsx |-> <<Chars("Entitlement Services.xlsx"),
                             Chars("Functional Area Matrix.xlsx")>>,
       case_sensitive |-> TRUE, pdf_text |-> TextOk, workbooks |-> GoodWorkbooks],
      [evidence_dir |-> DirOf(ExportNames \cup Chapters), referenced_xlsx |-> <<>>,
       case_sensitive |-> TRUE, pdf_text |-> TextOk,
       workbooks |-> [GoodWorkbooks EXCEPT !.es = <<>>]],
      [evidence_dir |-> DirOf(ExportNames \cup Chapters), referenced_xlsx |-> <<>>,
       case_sensitive |-> TRUE, pdf_text |-> TextOk,
       workbooks |-> [GoodWorkbooks EXCEPT !.ae = <<>>]] }

\* The record of the inputs of one run
RunInput(lenient, mvp_mode, rules_file, e, v) ==
    [lenient |-> lenient, mvp |-> mvp_mode, rules_file |-> rules_file,
     cms_id |-> e.cms_id, it_asset_id |-> e.it_asset_id, it_asset_name |-> e.it_asset_name,
     sod_value |-> e.sod_value, fa_value |-> e.fa_value, upload_value |-> e.upload_value,
     cif_value |-> e.cif_value,
     evidence_dir |-> v.evidence_dir, referenced_xlsx |-> v.referenced_xlsx,
     case_sensitive |-> v.case_sensitive, pdf_text |-> v.pdf_text,
     workbooks |-> v.workbooks]

RunInputs ==
    {RunInput(l, mm, rf, e, v) :
        l \in BOOLEAN, mm \in BOOLEAN, rf \in RulesFiles, e \in ExtractedValues,
        v \in EvidenceCases}

InitRun ==
    /\ IdleExcept("run")
    /\ run_in \in RunInputs
    /\ run_pc = "load_rules"
    /\ run_rules = <<>>
    /\ run_sections = <<>>
    /\ run_out = <<>>

\* rules = load_rules(rules_path_p)
RunLoadRules ==
    /\ Frame("run")
    /\ run_pc = "load_rules"
    /\ LET loaded == load_rules(run_in.rules_file)
       IN  IF loaded.kind = "raised"
           THEN run_out' = <<loaded>> /\ run_pc' = "done" /\ UNCHANGED run_rules
           ELSE run_rules' = <<loaded.value>> /\ run_pc' = SectionIds[1]
                    /\ UNCHANGED run_out
    /\ UNCHANGED <<run_in, run_sections>>

\* The checks of section k are built and aggregated, or an exception
\* leaves validate().
RunSectionStep(k) ==
    /\ Frame("run")
    /\ run_pc = SectionIds[k]
    /\ LET built == SectionChecks(k, run_in, run_rules[1])
       IN  IF built.kind = "raised"
           THEN run_out' = <<built>> /\ run_pc' = "done" /\ UNCHANGED run_sections
           ELSE /\ run_sections' =
                       Append(run_sections,
                              aggregate_section(SectionIds[k], SectionNames[k], built.value))
                /\ run_pc' = IF k < Len(SectionIds) THEN SectionIds[k + 1] ELSE "assemble"
                /\ UNCHANGED run_out
    /\ UNCHANGED <<run_in, run_rules>>

RunSection11 == RunSectionStep(1)

RunSection20 == RunSectionStep(2)

RunSection41 == RunSectionStep(3)

RunSection42 == RunSectionStep(4)

RunSection43 == RunSectionStep(5)

RunSection44 == RunSectionStep(6)

\* overall, recommendations, result = ReviewResult(...); return result
RunAssemble ==
    /\ Frame("run")
    /\ run_pc = "assemble"
    /\ run_out' = <<Returned(ReviewResult(aggregate_overall(run_sections), run_sections,
                                          recommendations_from_sections(run_sections)))>>
    /\ run_pc' = "done"
    /\ UNCHANGED <<run_in, run_rules, run_sections>>

NextRun ==
    \/ RunLoadRules
    \/ RunSection11
    \/ RunSection20
    \/ RunSection41
    \/ RunSection42
    \/ RunSection43
    \/ RunSection44
    \/ RunAssemble

SpecRun == InitRun /\ [][NextRun]_vars

-----------------------------------------------------------------------------
(* agent.py: the view of the DAC that validate() extracts from.  The OCR   *)
(* part of validate() ends in one of three ways: it was not entered, an   *)
(* exception was caught, or ocr_pdf_pages_best_effort returned a map from *)
(* pages to texts.                                                        *)

\* sum(len(v or "") for v in ocr_page_map.values()) > 0
OcrTextTotalPositive(ocr_page_map) == \E p \in DOMAIN ocr_page_map : Len(ocr_page_map[p]) > 0

\* A mutation of the choice of the view: any page in the map installs the
\* overlay.
view_choice_any_page(ocr) ==
    IF ocr.kind = "returned" /\ DOMAIN ocr.ocr_page_map # {} THEN "overlay" ELSE "base"

\* pdf = pdf_base; ... if ocr_page_map and ocr_text_total > 0:
\*     pdf = _PdfOverlayView(pdf_base, ocr_page_map)
view_choice(ocr) ==
    IF ocr.kind = "returned" /\ DOMAIN ocr.ocr_page_map # {}
           /\ OcrTextTotalPositive(ocr.ocr_page_map)
    THEN "overlay"
    ELSE "base"

\* _PdfOverlayView.all_text()
Overlay_all_text(doc, ocr) ==
    JoinLines([k \in DOMAIN doc |-> JoinLines(page_lines(doc, ocr, k - 1))])

\* _PdfOverlayView.find_pages_containing(needle, True)
Overlay_find_pages_containing(doc, ocr, needle) ==
    IF needle = "" THEN <<>>
    ELSE SortedSeq({i \in 0..(PdfDoc_page_count(doc) - 1) :
                        Contains(Lower(JoinLines(page_lines(doc, ocr, i))),
                                 Lower(Chars(needle)))})

\* What a call on pdf returns: on pdf_base or on the overlay view
ViewCall(pdf, doc, ocr, op, arg) ==
    CASE op = "page_count" -> PdfDoc_page_count(doc)
      [] op = "page_lines" ->
            IF pdf = "overlay" THEN page_lines(doc, ocr.ocr_page_map, arg)
            ELSE PdfDoc_page_lines(doc, arg)
      [] op = "all_text" ->
            IF pdf = "overlay" THEN Overlay_all_text(doc, ocr.ocr_page_map)
            ELSE PdfDoc_all_text(doc)
      [] op = "find_pages_containing" ->
            IF pdf = "overlay" THEN Overlay_find_pages_containing(doc, ocr.ocr_page_map, arg)
            ELSE FindPagesContainingText(doc, arg)

-----------------------------------------------------------------------------
(* Unit "view": validate() settles pdf after the OCR part and then reads  *)
(* the DAC through it.                                                    *)

\* Native page texts: none, blank, two lines of which the first ends in a
\* blank, one line in capitals.
ViewPageTexts == { <<>>, <<" ", "\n">>, <<"a", " ", "\n", "b">>, <<"A">> }

\* OCR texts: empty, blank, two lines.
ViewOcrTexts == { <<>>, <<" ">>, <<"x", "\n", "a">> }

ViewNeedles == {"a", "x"}

InitView ==
    /\ IdleExcept("view")
    /\ \E n \in 1..MaxViewPages :
          \E d \in [1..n -> ViewPageTexts] :
              \/ vw_in = [doc |-> d, ocr |-> [kind |-> "not_attempted"]]
              \/ vw_in = [doc |-> d, ocr |-> [kind |-> "raised"]]
              \/ \E keys \in SUBSET (0..(n - 1)) :
                    \E pm \in [keys -> ViewOcrTexts] :
                        vw_in = [doc |-> d, ocr |-> [kind |-> "returned", ocr_page_map |-> pm]]
    /\ vw_pdf = <<>>
    /\ vw_read = <<>>

\* The end of the OCR part: pdf is pdf_base or an overlay view
ViewChoose ==
    /\ Frame("view")
    /\ vw_pdf = <<>>
    /\ vw_pdf' = <<view_choice(vw_in.ocr)>>
    /\ UNCHANGED <<vw_in, vw_read>>

ViewRead(op, arg) ==
    /\ Frame("view")
    /\ vw_pdf # <<>>
    /\ vw_read' = <<[op |-> op, arg |-> arg,
                     value |-> ViewCall(vw_pdf[1], vw_in.doc, vw_in.ocr, op, arg)]>>
    /\ UNCHANGED <<vw_in, vw_pdf>>

\* pdf.page_count()
ViewPageCount == ViewRead("page_count", 0)

\* lines = pdf.page_lines(i)
ViewPageLines == \E i \in 0..(Len(vw_in.doc) - 1) : ViewRead("page_lines", i)

\* all_text = pdf.all_text()
ViewAllText == ViewRead("all_text", 0)

\* pdf.find_pages_containing(needle, True)
ViewFindPages == \E needle \in ViewNeedles : ViewRead("find_pages_containing", needle)

NextView == ViewChoose \/ ViewPageCount \/ ViewPageLines \/ ViewAllText \/ ViewFindPages

SpecView == InitView /\ [][NextView]_vars

-----------------------------------------------------------------------------
(* Properties of the aggregation engine.                                   *)

\* The status the six-rule precedence of the specification gives a list of
\* checks, stated over the set of (status, severity) pairs present in it.
SectionPrecedence(cs) ==
    LET pairs == {<<c.status, c.severity>> : c \in Range(cs)}
        present == {c.status : c \in Range(cs)}
    IN  IF <<"NOT_MET", "critical">> \in pairs THEN "NOT_MET"
        ELSE IF "NOT_MET" \in present /\ "MET" \in present THEN "PARTIALLY_MET"
        ELSE IF "NOT_MET" \in present THEN "NOT_MET"
        ELSE IF "MET" \in present /\ present \cap {"SKIPPED", "UNKNOWN"} # {}
             THEN "PARTIALLY_MET"
        ELSE IF "MET" \in present THEN "MET"
        ELSE "UNKNOWN"

\* C1: for every list of checks, _aggregate_section returns the status of the
\* six-rule precedence (critical NOT_MET, then NOT_MET with MET, then NOT_MET,
\* then MET with SKIPPED/UNKNOWN, then MET, else UNKNOWN, the empty list
\* included), and the section carries the checks it was given.
C1_SectionStatusFollowsPrecedence ==
    section # <<>> =>
        /\ section[1].status = SectionPrecedence(checks)
        /\ section[1].checks = checks

\* C1 witness: the specification's example, one MET critical check and one
\* SKIPPED major check, has been aggregated to PARTIALLY_MET.
C1_Witness ==
    /\ section # <<>>
    /\ Len(checks) = 2
    /\ checks[1].status = "MET" /\ checks[1].severity = "critical"
    /\ checks[2].status = "SKIPPED" /\ checks[2].severity = "major"
    /\ section[1].status = "PARTIALLY_MET"

IndexPermutations(n) ==
    {p \in [1..n -> 1..n] : \A i, j \in 1..n : i # j => p[i] # p[j]}

Permuted(cs, p) == [i \in 1..Len(cs) |-> cs[p[i]]]

\* C3: the status computed by _aggregate_section is the same for every
\* reordering of the list of checks.
C3_SectionStatusIgnoresOrder ==
    section # <<>> =>
        \A p \in IndexPermutations(Len(checks)) :
            aggregate_section("4.1", "Entitlements", Permuted(checks, p)).status
                = section[1].status

\* C3 witness: a list of three checks of three different statuses, one of them
\* NOT_MET and critical but not the first, has been aggregated.
C3_Witness ==
    /\ section # <<>>
    /\ Len(checks) = 3
    /\ checks[1].status = "MET"
    /\ checks[2].status = "SKIPPED"
    /\ checks[3].status = "NOT_MET" /\ checks[3].severity = "critical"
    /\ section[1].status = "NOT_MET"

\* The overall status the five rules of the specification give a list of
\* sections.
OverallByRule(secs) ==
    LET some(st) == \E i \in DOMAIN secs : secs[i].status = st
        all(st) == \A i \in DOMAIN secs : secs[i].status = st
    IN  IF some("NOT_MET") /\ ~all("NOT_MET") THEN "PARTIALLY_MET"
        ELSE IF all("NOT_MET") THEN "NOT_MET"
        ELSE IF some("PARTIALLY_MET") THEN "PARTIALLY_MET"
        ELSE IF all("MET") THEN "MET"
        ELSE "UNKNOWN"

\* C2: the overall status of an assembled review is PARTIALLY_MET if some but
\* not all sections are NOT_MET, NOT_MET if all are, else PARTIALLY_MET if any
\* section is PARTIALLY_MET, else MET if all are MET, else UNKNOWN.
C2_OverallStatusFollowsRules ==
    result # <<>> =>
        /\ result[1].sections = sections
        /\ result[1].overall_status = OverallByRule(sections)

\* C2 witness: a review of one MET section and one UNKNOWN section has been
\* assembled, and its overall status is UNKNOWN.
C2_Witness ==
    /\ result # <<>>
    /\ {sections[i].status : i \in DOMAIN sections} = {"MET", "UNKNOWN"}
    /\ result[1].overall_status = "UNKNOWN"

\* The positions <<i, j>> of the NOT_MET checks of a list of sections.
NotMetPositions(secs) ==
    {q \in UNION {{<<i, j>> : j \in DOMAIN secs[i].checks} : i \in DOMAIN secs} :
        secs[q[1]].checks[q[2]].status = "NOT_MET"}

\* q comes before r in section order, then check order.
Before(q, r) == q[1] < r[1] \/ (q[1] = r[1] /\ q[2] < r[2])

\* C6: the recommendations hold exactly one entry per NOT_MET check and none
\* for any other check, in section order then check order, each reading
\* "[section_id] check_name: message", with the fallback text in place of an
\* empty message.
C6_OneRecommendationPerNotMet ==
    result # <<>> =>
        LET recs == result[1].recommendations
            P == NotMetPositions(sections)
            rank(q) == Cardinality({r \in P : Before(r, q)}) + 1
        IN  /\ Len(recs) = Cardinality(P)
            /\ \A q \in P :
                  LET s == sections[q[1]]
                      c == s.checks[q[2]]
                  IN  recs[rank(q)] =
                          "[" \o s.section_id \o "] " \o c.name \o ": " \o
                          (IF c.message = "" THEN "Fix missing/invalid evidence."
                                             ELSE c.message)

\* C6 witness: a review of three checks in two sections has been assembled;
\* two of the checks are NOT_MET, one of them with an empty message, they lie
\* in different sections, and the third check is not NOT_MET.
C6_Witness ==
    /\ result # <<>>
    /\ Len(sections) = 2
    /\ Len(sections[1].checks) = 1 /\ Len(sections[2].checks) = 2
    /\ sections[1].checks[1].status = "NOT_MET"
    /\ sections[1].checks[1].message = ""
    /\ sections[2].checks[1].status = "SKIPPED"
    /\ sections[2].checks[2].status = "NOT_MET"
    /\ sections[2].checks[2].message # ""
    /\ Len(result[1].recommendations) = 2

-----------------------------------------------------------------------------
(* Properties of the threshold checks.                                     *)

\* floor(total_rows * ratio_tol) for the fraction ratio_tol (\div rounds down).
FloorOfProduct(total, ratio_tol) == (total * ratio_tol[1]) \div ratio_tol[2]

\* C4: a threshold check is MET when no row fails; otherwise, with
\* tolerance = max(abs_tol, floor(total_rows * ratio_tol)), it is MET with an
\* "MVP warning" message iff mvp is on and the failing rows are within the
\* tolerance, and NOT_MET in every other case.
C4_ThresholdOutcome ==
    thr_check # <<>> =>
        LET c == thr_check[1]
            failing == finding.failing_rows
            total == finding.total_rows
            tolerance == Max(rule.abs_tol, FloorOfProduct(total, rule.ratio_tol))
        IN  IF failing = 0
            THEN c.status = "MET" /\ c.message = ""
            ELSE IF mvp /\ failing <= tolerance
            THEN /\ c.status = "MET"
                 /\ c.message =
                        "MVP warning: " \o ToString(failing) \o " of " \o ToString(total)
                        \o " rows failed (tolerance=" \o ToString(tolerance) \o ")."
            ELSE /\ c.status = "NOT_MET"
                 /\ c.message =
                        ToString(failing) \o " of " \o ToString(total) \o " rows failed."

\* C4 witness: the specification's example in tolerant mode -- 100 rows, 8
\* failing, ratio 0.10, absolute tolerance 5 -- has been checked and is MET
\* with the warning that names the tolerance 10.
C4_Witness ==
    /\ thr_check # <<>>
    /\ finding = [total_rows |-> 100, failing_rows |-> 8]
    /\ rule.ratio_tol = <<1, 10>> /\ rule.abs_tol = 5
    /\ mvp
    /\ thr_check[1].status = "MET"
    /\ thr_check[1].message = "MVP warning: 8 of 100 rows failed (tolerance=10)."

\* C5: for non-negative ratio_tol, abs_tol and total_rows the tolerance used by
\* the threshold checks does not decrease when total_rows grows: the tolerance
\* of every smaller table is at most the tolerance of this one.
C5_ToleranceMonotone ==
    (rule.ratio_tol[1] >= 0 /\ rule.abs_tol >= 0) =>
        \A t \in 0..finding.total_rows :
            Tolerance(t, rule.ratio_tol, rule.abs_tol)
                <= Tolerance(finding.total_rows, rule.ratio_tol, rule.abs_tol)

\* C5 witness: a check has run on a table whose tolerance comes from the ratio
\* and is strictly larger than the tolerance of an empty table.
C5_Witness ==
    /\ thr_check # <<>>
    /\ rule.ratio_tol[1] >= 0 /\ rule.abs_tol >= 0
    /\ Tolerance(finding.total_rows, rule.ratio_tol, rule.abs_tol) > rule.abs_tol
    /\ Tolerance(0, rule.ratio_tol, rule.abs_tol) = rule.abs_tol
    /\ mvp /\ finding.failing_rows > rule.abs_tol
    /\ thr_check[1].status = "MET"

-----------------------------------------------------------------------------
(* Properties of the overlay view.                                         *)

\* The text holds a character that is not white space.
HasInk(text) == \E k \in DOMAIN text : text[k] \notin Whitespace

\* The characters of the text that are not white space, in order.
InkOf(text) == SelectSeq(text, LAMBDA ch : ch \notin Whitespace)

\* C7: for a page whose native text is non-empty after trimming, page_lines
\* of the overlay view returns the base lines unchanged whatever OCR text is
\* mapped to the page; it returns anything else only when the native text is
\* empty and the OCR text of the page is not, and then it returns the
\* non-blank lines of that OCR text.
C7_OverlayKeepsNativeText ==
    view_page # <<>> =>
        LET i == view_page[1]
            base_lines == PdfDoc_page_lines(base_doc, i)
            native == HasInk(PdfDoc_page_text(base_doc, i))
            ocr == OcrTextOf(ocr_pages, i)
        IN  /\ native => lines_out = base_lines
            /\ lines_out # base_lines => ~native /\ HasInk(ocr)
            /\ (~native /\ HasInk(ocr)) =>
                  /\ InkOf(JoinLines(lines_out)) = InkOf(ocr)
                  /\ \A k \in DOMAIN lines_out :
                        HasInk(lines_out[k]) /\ "\n" \notin Range(lines_out[k])

\* C7 witness: a page with native text and with OCR text mapped to it has
\* been asked for, and the base lines came back.
C7_Witness ==
    /\ view_page # <<>>
    /\ HasInk(PdfDoc_page_text(base_doc, view_page[1]))
    /\ HasInk(OcrTextOf(ocr_pages, view_page[1]))
    /\ lines_out = PdfDoc_page_lines(base_doc, view_page[1])
    /\ Len(lines_out) = 2

-----------------------------------------------------------------------------
(* Properties of the OCR of the DAC in validate().                         *)

\* The caller supplied a non-empty explicit ocr_pages list.
ExplicitPages == dac_in.ocr_pages # <<>> /\ dac_in.ocr_pages[1] # <<>>

\* C8: in validate, OCR of the DAC is invoked only if the ocr flag is enabled
\* and (the native DAC text is shorter than min_text_chars or the caller
\* supplied a non-empty explicit ocr_pages list); when ocr is disabled no OCR
\* call is ever made for the DAC and the meta data record no attempt.
C8_DacOcrOnlyWhenEnabledAndNeeded ==
    unit = "dac" =>
        /\ (dac_pc \in {"select", "call"} \/ dac_ocr_calls # <<>>) =>
               /\ dac_in.ocr
               /\ \/ BaseChars(dac_in.doc) < dac_in.min_text_chars
                  \/ ExplicitPages
        /\ ~dac_in.ocr =>
               /\ dac_ocr_calls = <<>>
               /\ ~dac_ocr_meta.ocr_attempted
               /\ pdf_overlay = <<>>

\* OCR was called on explicit pages although the native text is long enough.
C8_Witness ==
    /\ unit = "dac"
    /\ dac_ocr_calls # <<>>
    /\ BaseChars(dac_in.doc) >= dac_in.min_text_chars
    /\ ExplicitPages
    /\ dac_ocr_meta.ocr_attempted

\* The pages of the DAC whose native text contains an anchor phrase.
AnchorPages ==
    {i \in 0..(Len(dac_in.doc) - 1) : dac_in.doc[i + 1].anchors \cap Range(Needles) # {}}

\* C9: when DAC OCR runs without explicit pages, the pages selected for OCR
\* are pages whose native text contains an anchor phrase, capped to at most
\* max_pages pages; if no anchor is found on any page, the selection is exactly
\* the first max_pages pages of the document (bounded by the page count).  The
\* selection never exceeds max_pages pages.
C9_SelectionCappedToMaxPages ==
    (unit = "dac" /\ dac_pc = "call" /\ ~ExplicitPages) =>
        LET max_pages == dac_in.ocr_max_pages[1]
            sel == pages_to_ocr[1]
        IN  /\ Len(sel) <= max_pages
            /\ AnchorPages # {} =>
                   /\ Range(sel) \subseteq AnchorPages
                   /\ Len(sel) = Min(max_pages, Cardinality(AnchorPages))
            /\ AnchorPages = {} =>
                   sel = RangeSeq(Min(max_pages, Len(dac_in.doc)))

-----------------------------------------------------------------------------
(* Properties of the OCR of an evidence PDF.                               *)

\* The case in which the claim allows OCR of an evidence PDF.
EvidenceOcrCase ==
    /\ ev_in.ocr
    /\ ev_in.text_chars < ev_in.min_chars
    /\ ev_in.image_count >= ev_in.ocr_image_threshold

\* C10: for a single evidence PDF, _pdf_text_and_ocr_meta attempts OCR only
\* when the ocr flag is on and the native text is shorter than min_chars and
\* the number of embedded images is at least ocr_image_threshold; in every
\* other case it returns, meta records ocr_attempted = false, and the text
\* verdict is that of the native text alone.
C10_EvidenceOcrOnlyWhenRequired ==
    (unit = "evidence" /\ ev_out # <<>>) =>
        /\ ev_ocr_calls # <<>> => EvidenceOcrCase
        /\ (~ev_out[1].raised /\ ev_out[1].meta.ocr_attempted) => EvidenceOcrCase
        /\ ~EvidenceOcrCase =>
               /\ ev_ocr_calls = <<>>
               /\ ~ev_out[1].raised
               /\ ~ev_out[1].meta.ocr_attempted
               /\ ev_out[1].text_ok = (ev_in.text_chars >= ev_in.min_chars)

\* OCR of a scanned evidence PDF was attempted and lifted the text verdict.
C10_Witness ==
    /\ unit = "evidence"
    /\ ev_out # <<>>
    /\ ev_ocr_calls # <<>>
    /\ ~ev_out[1].raised
    /\ ev_out[1].meta.ocr_attempted
    /\ ev_out[1].text_ok
    /\ ev_in.text_chars < ev_in.min_chars

-----------------------------------------------------------------------------
(* Properties of the OCR cache.                                            *)

\* Two requests agree in document bytes, language, DPI and page selection (or
\* max-page count when no pages are selected).
SameOcrParameters(a, b) ==
    LET selected(q) == q.pages # <<>> /\ q.pages[1] # <<>>
    IN  /\ a.doc = b.doc
        /\ a.lang = b.lang
        /\ a.dpi = b.dpi
        /\ selected(a) = selected(b)
        /\ IF selected(a) THEN a.pages = b.pages ELSE a.max_pages = b.max_pages

\* C11: after ocr_pdf_pages_best_effort has completed a render+recognize run and
\* written its cache entry, every later call with the same document bytes,
\* language, DPI and page selection (or max-page count) is served from the
\* cache: it performs no rendering or recognition, reports ocr_cache_hit =
\* true, and returns the page texts that were written; a call differing in any
\* of those parameters does not reuse that entry.
C11_LaterCallsServedFromCache ==
    (unit = "cache" /\ cache_last # <<>>) =>
        LET c == cache_last[1]
        IN  /\ \A q \in DOMAIN c.before :
                   SameOcrParameters(q, c.req) =>
                       /\ c.ocr_cache_hit
                       /\ ~c.rendered
                       /\ c.ocr_pages = c.before[q]
            /\ c.ocr_cache_hit =>
                   \E q \in DOMAIN c.before : SameOcrParameters(q, c.req)

-----------------------------------------------------------------------------
(* Properties of OCR failures.                                             *)

\* C12: ocr_pdf_pages_best_effort never raises on a missing OCR dependency, a
\* rendering failure or a recognition failure: in each of those cases it
\* returns normally with metadata in which ocr_succeeded is false and an error
\* string is recorded, and the caller, validate(), continues with native text.
C12_OcrFailuresAreRecorded ==
    (unit = "dac" /\ dac_ocr_calls # <<>>) =>
        LET call == dac_ocr_calls[Len(dac_ocr_calls)]
            failed == \/ call.env \in {"unavailable", "open_error"}
                      \/ call.env = "page_error" /\ call.pages_used # <<>>
        IN  (failed /\ dac_in.ocr_max_pages # <<>>) =>
                /\ ~call.raised
                /\ ~dac_ocr_meta.ocr_succeeded
                /\ dac_ocr_meta.error # ""
                /\ pdf_overlay = <<>>
                /\ dac_pc = "extract"

-----------------------------------------------------------------------------
(* Properties of the yes/no answers.                                       *)

\* The answer letter or word w stands in s as a token of its own.
StandaloneToken(s, w) == SearchWord(Lower(s), Chars(w))

SaysYes(s) == StandaloneToken(s, "y") \/ StandaloneToken(s, "yes")

SaysNo(s) == StandaloneToken(s, "n") \/ StandaloneToken(s, "no")

\* C13: extract_yes_no returns "yes" for y or yes (in any case, as a token of
\* its own), "no" for n or no, and none otherwise: "Y" gives yes, "n" gives
\* no, "relevant? y" gives yes, "Answer: No," gives no and "maybe" gives none.
C13_YesNoTokens ==
    (unit = "yesno" /\ yn_in.fn = "extract_yes_no" /\ yn_out # <<>>) =>
        LET s == IF yn_in.text = <<>> THEN <<>> ELSE yn_in.text[1]
            v == yn_out[1].value
        IN  /\ (SaysYes(s) /\ ~SaysNo(s)) => v = <<"yes">>
            /\ (SaysNo(s) /\ ~SaysYes(s)) => v = <<"no">>
            /\ (SaysYes(s) /\ SaysNo(s)) => v \in {<<"yes">>, <<"no">>}
            /\ (~SaysYes(s) /\ ~SaysNo(s)) => v = <<>>

\* C14: _extract_yes_no_near takes its answer only from the window that
\* follows the end of a label match, and in the text "Functional Area
\* relevant? y / Do you want to upload the entitlement composition? n" the two
\* label patterns give "yes" and "no".
C14_AnswerNearLabel ==
    (unit = "yesno" /\ yn_in.fn = "_extract_yes_no_near" /\ yn_out # <<>>) =>
        LET t == normalize_text(yn_in.text[1])
            v == yn_out[1].value
            ends == FindIterEnds(t, yn_in.label_patterns[1], 1)
            chunk(k) == WindowAfter(t, ends[k], yn_in.window)
        IN  /\ v = <<"yes">> => \E k \in DOMAIN ends : SaysYes(chunk(k))
            /\ v = <<"no">> => \E k \in DOMAIN ends : SaysNo(chunk(k))
            /\ (yn_in.text[1] = NearExampleText /\ yn_in.window = 250) =>
                   v = IF yn_in.label_patterns[1] = FunctionalAreaPattern
                       THEN <<"yes">> ELSE <<"no">>

-----------------------------------------------------------------------------
(* Properties of the value extractors.                                     *)

\* Line i, trimmed, contains one of the labels.
IsLabelLine(lines, labels, i) ==
    \E k \in DOMAIN labels :
        labels[k] # <<>> /\ Contains(Lower(Strip(lines[i])), Lower(labels[k]))

\* The text of s from position q on, without a colon at its start and white
\* space around it.
RemainderFrom(s, q) ==
    LET r == LStrip(SubSeq(s, q, Len(s)))
    IN  Strip(IF r # <<>> /\ Head(r) = ":" THEN Tail(r) ELSE r)

\* The texts that remain of line i after a label in it.
RemaindersAfterLabel(lines, labels, i) ==
    LET s == Strip(lines[i])
    IN  UNION { {RemainderFrom(s, p + Len(labels[k])) :
                     p \in Occurrences(Lower(s), Lower(labels[k]))} :
                k \in DOMAIN labels }

\* Line j is the first line after line i, at most window lines on, that is
\* not blank and contains no label.
IsFollowingValue(lines, labels, i, j, window) ==
    LET free(n) == Strip(lines[n]) # <<>> /\ ~IsLabelLine(lines, labels, n)
    IN  /\ j \in (i + 1)..Min(i + window, Len(lines))
        /\ free(j)
        /\ \A n \in (i + 1)..(j - 1) : ~free(n)

\* C15 as stated: label-anchored value extraction returns, for the first
\* line containing a label, the non-empty remainder of that line after the
\* label when there is one, and otherwise the first non-empty following line
\* within the window that does not itself contain a label; for the single
\* line "CMS Product ID 1513344" it returns "1513344", and "IT Asset ID:
\* AID551" yields "AID551".
C15_ValueAfterLabel ==
    (unit = "extract" /\ ex_in.fn = "find_first_value_after_labels" /\ ex_out # <<>>) =>
        LET lines == ex_in.lines
            labels == ex_in.labels
            v == ex_out[1].value
            ls == {i \in DOMAIN lines : IsLabelLine(lines, labels, i)}
        IN  /\ ls = {} => v = <<>>
            /\ ls # {} =>
                 LET i == Least(ls)
                     rems == RemaindersAfterLabel(lines, labels, i) \ {<<>>}
                 IN  IF rems # {} THEN v # <<>> /\ v[1] \in rems
                     ELSE \/ v # <<>> /\ \E j \in DOMAIN lines :
                                 /\ IsFollowingValue(lines, labels, i, j, 7)
                                 /\ v[1] = Strip(lines[j])
                          \/ v = <<>> /\ ~\E j \in DOMAIN lines :
                                 IsFollowingValue(lines, labels, i, j, 7)
            /\ (lines = <<Chars("CMS Product ID 1513344")>>
                    /\ labels = <<Chars("CMS Product ID")>>) => v = <<Chars("1513344")>>
            /\ (lines = <<Chars("IT Asset ID: AID551")>>
                    /\ labels = <<Chars("IT Asset ID"), Chars("IT Asset ID:")>>) =>
                   v = <<Chars("AID551")>>

\* The text after the first colon of line i, trimmed; <<>> without a colon.
TextAfterColon(lines, i) ==
    LET s == Strip(lines[i])
    IN  IF \E p \in DOMAIN s : s[p] = ":"
        THEN LET p == CHOOSE p \in DOMAIN s : s[p] = ":" /\ \A q \in 1..(p - 1) : s[q] # ":"
             IN  Strip(SubSeq(s, p + 1, Len(s)))
        ELSE <<>>

\* Line i contains a label and gives a value: text after its first colon, or
\* a following line.
LineYields(lines, labels, i) ==
    /\ IsLabelLine(lines, labels, i)
    /\ \/ TextAfterColon(lines, i) # <<>>
       \/ \E j \in DOMAIN lines : IsFollowingValue(lines, labels, i, j, 7)

\* C15, amended: find_first_value_after_labels returns, for the first line
\* that contains a label and gives a value, the non-empty text after the
\* first colon of that line when there is one, and otherwise the first
\* non-empty line among the seven that follow which contains no label; it
\* returns none iff no line with a label gives a value.  For the single line
\* "CMS Product ID 1513344" it returns none, and "IT Asset ID: AID551" yields
\* "AID551"; _extract_value_from_text returns "1513344" and "AID551" for the
\* text of the test.
C15_ValueAfterColonOrBelow ==
    /\ (unit = "extract" /\ ex_in.fn = "find_first_value_after_labels" /\ ex_out # <<>>) =>
        LET lines == ex_in.lines
            labels == ex_in.labels
            v == ex_out[1].value
            ys == {i \in DOMAIN lines : LineYields(lines, labels, i)}
        IN  /\ v = <<>> <=> ys = {}
            /\ ys # {} =>
                 LET i == Least(ys)
                 IN  IF TextAfterColon(lines, i) # <<>>
                     THEN v = <<TextAfterColon(lines, i)>>
                     ELSE \E j \in DOMAIN lines :
                              /\ IsFollowingValue(lines, labels, i, j, 7)
                              /\ v = <<Strip(lines[j])>>
            /\ (lines = <<Chars("CMS Product ID 1513344")>>
                    /\ labels = <<Chars("CMS Product ID")>>) => v = <<>>
            /\ (lines = <<Chars("IT Asset ID: AID551")>>
                    /\ labels = <<Chars("IT Asset ID"), Chars("IT Asset ID:")>>) =>
                   v = <<Chars("AID551")>>
    /\ (unit = "extract" /\ ex_in.fn = "_extract_value_from_text" /\ ex_out # <<>>
            /\ ex_in.text = ValueExampleText) =>
        ex_out[1].value = IF ex_in.labels = <<Chars("CMS Product ID")>>
                          THEN <<Chars("1513344")>> ELSE <<Chars("AID551")>>

\* A value is taken from a line below the label, beyond the blank lines
\* between them.
C15_Witness ==
    /\ unit = "extract" /\ ex_in.fn = "find_first_value_after_labels" /\ ex_out # <<>>
    /\ ex_in.lines = PaddedLines(2)
    /\ ex_out[1].value = <<Chars("1513344")>>

\* The structured per-page extraction of a field.
PerPageValue(doc, field) ==
    IF field \in {"cms_id", "it_asset_id"} THEN extract_value_global(doc, FieldLabels(field))
    ELSE YesNoPerPage(doc, field)

\* The typed document-wide extractor of a field of section 1.1.
TypedValue(doc, field) ==
    IF field = "cms_id" THEN extract_cms_product_id(PdfDoc_all_text(doc))
    ELSE extract_it_asset_id(PdfDoc_all_text(doc))

\* The generic label-based document-wide extractor.
GenericValue(doc, field) == extract_value_from_text(PdfDoc_all_text(doc), FieldLabels(field))

\* C16: for each extracted field in validate, the structured per-page result
\* is used whenever it is non-empty; the document-wide fallback is consulted
\* only when the per-page extraction returned none, and within the fallback
\* the typed regex extractor's result is preferred over the generic
\* label-based extractor's.
C16_ResolutionOrder ==
    (unit = "extract" /\ ex_in.fn = "validate" /\ ex_out # <<>>) =>
        LET doc == ex_in.doc
            field == ex_in.field
            per_page == PerPageValue(doc, field)
            fallback == Range(ex_out[1].consulted) \ {"per_page"}
        IN  /\ per_page # <<>> => ex_out[1].value = per_page
            /\ fallback # {} => per_page = <<>>
            /\ (per_page = <<>> /\ field \in {"cms_id", "it_asset_id"}) =>
                   ex_out[1].value = IF TypedValue(doc, field) # <<>>
                                     THEN TypedValue(doc, field)
                                     ELSE GenericValue(doc, field)

\* The per-page extraction of page 2 is used although the typed extractor
\* reads another value from page 1.
C16_Witness ==
    /\ unit = "extract" /\ ex_in.fn = "validate" /\ ex_out # <<>>
    /\ ex_in.field = "cms_id"
    /\ PerPageValue(ex_in.doc, "cms_id") # <<>>
    /\ TypedValue(ex_in.doc, "cms_id") # <<>>
    /\ TypedValue(ex_in.doc, "cms_id") # PerPageValue(ex_in.doc, "cms_id")
    /\ ex_out[1].value = PerPageValue(ex_in.doc, "cms_id")

-----------------------------------------------------------------------------
(* Properties of the export file lookup.                                   *)

\* The referenced name r ends with the suffix and exists in the evidence
\* directory.
ReferenceQualifies(r) ==
    /\ EndsWith(Lower(r), Lower(fx_in.expected_suffix))
    /\ PathExists(fx_in.dir, r, fx_in.case_sensitive)

\* The files directly inside the evidence directory whose lowercase names end
\* with the suffix.
FilesWithSuffix ==
    IF fx_in.dir = <<>> THEN {}
    ELSE {n \in fx_in.dir[1] : EndsWith(Lower(n), Lower(fx_in.expected_suffix))}

\* C18: _find_export_file returns a referenced filename's path whenever some
\* referenced filename ends (without regard to case) with the expected suffix
\* and exists in the evidence directory, taking the first such reference;
\* only when no referenced file qualifies does it return a file directly
\* inside the evidence directory whose lowercase name ends with the suffix;
\* it returns none iff neither exists.
C18_ExportFileLookup ==
    (unit = "export" /\ fx_out # <<>>) =>
        LET refs == fx_in.referenced_xlsx
            qual == {k \in DOMAIN refs : ReferenceQualifies(refs[k])}
            p == fx_out[1].path
        IN  /\ qual # {} => p = <<refs[Least(qual)]>>
            /\ (qual = {} /\ p # <<>>) => p[1] \in FilesWithSuffix
            /\ p = <<>> <=> (qual = {} /\ FilesWithSuffix = {})

-----------------------------------------------------------------------------
(* Properties of the required-columns checks.                              *)

\* The trimmed string form of the cell is empty: the cell is null, NaN or a
\* text of white space only.
TrimmedEmpty(cell) ==
    \/ cell.kind \in {"none", "nan"}
    \/ cell.kind = "str" /\ \A k \in DOMAIN cell.text : cell.text[k] \in Whitespace

\* C19: check_required_columns_non_empty reports failing_rows = total_rows
\* whenever a required column is absent from the table, whatever the rows
\* hold; when all required columns exist, a row counts as failing iff at
\* least one required column's trimmed string form is empty (null, NaN or
\* blank), and the sample holds at most max_samples records.
C19_RequiredColumnsNonEmpty ==
    (unit = "table" /\ tb_in.fn = "check_required_columns_non_empty" /\ tb_out # <<>>) =>
        LET df == tb_in.df
            required == Range(tb_in.required_cols)
            f == tb_out[1]
        IN  /\ f.total_rows = Len(df.rows)
            /\ ~(required \subseteq Range(df.columns)) => f.failing_rows = f.total_rows
            /\ required \subseteq Range(df.columns) =>
                 /\ f.failing_rows =
                        Cardinality({i \in DOMAIN df.rows :
                                         \E c \in required : TrimmedEmpty(df.rows[i][c])})
                 /\ Len(f.sample_rows) <= tb_in.max_samples

\* All required columns exist, a row fails for a blank cell alone, and more
\* rows fail than the sample may hold.
C19_Witness ==
    /\ unit = "table" /\ tb_in.fn = "check_required_columns_non_empty" /\ tb_out # <<>>
    /\ Range(tb_in.required_cols) \subseteq Range(tb_in.df.columns)
    /\ \E i \in DOMAIN tb_in.df.rows :
          /\ \A c \in Range(tb_in.required_cols) : notna(tb_in.df.rows[i][c])
          /\ \E c \in Range(tb_in.required_cols) : TrimmedEmpty(tb_in.df.rows[i][c])
    /\ tb_out[1].failing_rows > tb_in.max_samples
    /\ Len(tb_out[1].sample_rows) = tb_in.max_samples
    /\ tb_in.max_samples > 0

\* C20: for the IT-role table a row passes the owner-fallback required check
\* iff every base required column is non-empty after trimming and, when at
\* least one of the alternative owner columns exists in the table, at least
\* one existing owner column is non-empty for that row; when no owner column
\* exists the owner requirement is satisfied for every row.
C20_OwnerFallback ==
    (unit = "table" /\ tb_in.fn = "validate" /\ tb_out # <<>>
         /\ tb_out[1].missing_base = <<>>) =>
        LET df == tb_in.df
            owners == Range(OwnerColumns) \cap Range(df.columns)
        IN  \A i \in DOMAIN df.rows :
                tb_out[1].rows_ok[i] <=>
                    /\ \A c \in Range(base_required) : ~TrimmedEmpty(df.rows[i][c])
                    /\ owners # {} => \E c \in owners : ~TrimmedEmpty(df.rows[i][c])

-----------------------------------------------------------------------------
(* Properties of the meaningful-description check.                         *)

\* The text of the row's cell in the column, empty when the table has no
\* such column or the cell is null.
CellText(df, i, col) ==
    IF col \in Range(df.columns) THEN FillnaStr(df.rows[i][col]) ELSE <<>>

\* The description of row i is rejected: it is empty after trimming, shorter
\* than the minimum length, a placeholder token, or equal (both trimmed, in
\* any case of the letters) to the row's non-empty display name.
Rejected(df, i, display_col, desc_col) ==
    LET d == Strip(CellText(df, i, desc_col))
        dn == CellText(df, i, display_col)
    IN  \/ d = <<>>
        \/ Len(d) < MinDescriptionLength
        \/ d \in Placeholders
        \/ dn # <<>> /\ Lower(d) = Lower(Strip(dn))

RejectedRows(df, display_col, desc_col) ==
    {i \in DOMAIN df.rows : Rejected(df, i, display_col, desc_col)}

\* C21, as stated: meaningful_description rejects a description iff it is
\* empty after trimming, shorter than the minimum length 8, a placeholder
\* token, or equal case-insensitively to the row's non-empty display name,
\* and check_meaningful_descriptions counts exactly the rejected rows as
\* failing.
C21_CountsRejectedRows ==
    (unit = "table" /\ tb_in.fn = "check_meaningful_descriptions" /\ tb_out # <<>>) =>
        tb_out[1].failing_rows =
            Cardinality(RejectedRows(tb_in.df, tb_in.display_col, tb_in.desc_col))

\* C21, amended: when the table has both columns, the failing rows of
\* check_meaningful_descriptions are exactly the rejected rows; when the
\* display-name or the description column is absent, every row counts as
\* failing.
C21_CountsRejectedRowsOfFullTable ==
    (unit = "table" /\ tb_in.fn = "check_meaningful_descriptions" /\ tb_out # <<>>) =>
        LET df == tb_in.df
            f == tb_out[1]
        IN  /\ f.total_rows = Len(df.rows)
            /\ {tb_in.display_col, tb_in.desc_col} \subseteq Range(df.columns) =>
                   f.failing_rows =
                       Cardinality(RejectedRows(df, tb_in.display_col, tb_in.desc_col))
            /\ ~({tb_in.display_col, tb_in.desc_col} \subseteq Range(df.columns)) =>
                   f.failing_rows = f.total_rows

\* A table with both columns in which one row is rejected only for copying
\* the display name and another row is accepted.
C21_Witness ==
    /\ unit = "table" /\ tb_in.fn = "check_meaningful_descriptions" /\ tb_out # <<>>
    /\ {tb_in.display_col, tb_in.desc_col} \subseteq Range(tb_in.df.columns)
    /\ \E i \in DOMAIN tb_in.df.rows :
          /\ Rejected(tb_in.df, i, tb_in.display_col, tb_in.desc_col)
          /\ Len(Strip(CellText(tb_in.df, i, tb_in.desc_col))) >= MinDescriptionLength
    /\ tb_out[1].failing_rows = 1
    /\ tb_out[1].total_rows = 2

-----------------------------------------------------------------------------
(* Properties of a run of validate().                                     *)

\* The run has returned a ReviewResult.
RunReturned == unit = "run" /\ run_pc = "done" /\ run_out[1].kind = "returned"

\* The positions <<section, check>> of the checks of a list of sections
CheckPositions(secs) ==
    UNION {{<<k, j>> : j \in DOMAIN secs[k].checks} : k \in DOMAIN secs}

CheckAt(secs, p) == secs[p[1]].checks[p[2]]

\* The yes/no presence checks and the answers they are given
YesNoCheckIds == {"S4.1-01", "S4.1-02", "S4.1-03", "S4.2-01"}

YesNoAnswer(inp, check_id) ==
    CASE check_id = "S4.1-01" -> inp.sod_value
      [] check_id = "S4.1-02" -> inp.fa_value
      [] check_id = "S4.1-03" -> inp.upload_value
      [] check_id = "S4.2-01" -> inp.cif_value

\* C22: for the same inputs and the same mvp setting, the runs with lenient
\* on and off produce identical checks, except that a yes/no presence check
\* whose answer is missing or unparseable is SKIPPED with lenient on and
\* NOT_MET with lenient off; a yes/no check with a parsed yes or no is MET
\* in both runs.
C22_LenientAffectsOnlyYesNoChecks ==
    (unit = "run" /\ run_pc = "done") =>
        LET other == validate([run_in EXCEPT !.lenient = ~run_in.lenient])
            on == IF run_in.lenient THEN run_out[1] ELSE other
            off == IF run_in.lenient THEN other ELSE run_out[1]
        IN  /\ on.kind = off.kind
            /\ on.kind = "raised" => on = off
            /\ on.kind = "returned" =>
                 /\ CheckPositions(on.value.sections) = CheckPositions(off.value.sections)
                 /\ \A p \in CheckPositions(on.value.sections) :
                       LET a == CheckAt(on.value.sections, p)
                           b == CheckAt(off.value.sections, p)
                       IN  IF a.check_id \in YesNoCheckIds
                           THEN /\ a.check_id = b.check_id /\ a.name = b.name
                                /\ a.severity = b.severity
                                /\ IF YesNoAnswer(run_in, a.check_id) \in {<<"yes">>, <<"no">>}
                                   THEN a.status = "MET" /\ b.status = "MET" /\ a = b
                                   ELSE a.status = "SKIPPED" /\ b.status = "NOT_MET"
                           ELSE a = b

\* A lenient run that returned with one yes/no check SKIPPED for a missing
\* answer and another MET for a parsed one.
C22_Witness ==
    /\ RunReturned
    /\ run_in.lenient
    /\ \E p, q \in CheckPositions(run_out[1].value.sections) :
          /\ CheckAt(run_out[1].value.sections, p).check_id \in YesNoCheckIds
          /\ CheckAt(run_out[1].value.sections, p).status = "SKIPPED"
          /\ CheckAt(run_out[1].value.sections, q).check_id \in YesNoCheckIds
          /\ CheckAt(run_out[1].value.sections, q).status = "MET"
    /\ \E p \in CheckPositions(run_out[1].value.sections) :
          CheckAt(run_out[1].value.sections, p).status = "NOT_MET"

\* The ids of the evidence-presence checks: the required evidence PDFs, the
\* expected exports, the Special Accounts export, the Functional Area Matrix
EvidencePresenceIds(rules) ==
    {"S2.0-" \o TwoDigits(i) : i \in DOMAIN rules.pdf_evidence.required_files}
        \cup {"S4.1-F" \o TwoDigits(i) : i \in DOMAIN expected_41}
        \cup {"S4.2-F" \o TwoDigits(i) : i \in DOMAIN expected_42}
        \cup {"S4.3-01", "S4.4-01"}

\* C23: in mvp mode a missing evidence file never produces a NOT_MET check:
\* every evidence-presence check (required evidence PDF, expected export,
\* Special Accounts export, Functional Area Matrix) whose file is absent is
\* SKIPPED with a warning message.
C23_MvpSkipsAbsentEvidence ==
    (RunReturned /\ run_in.mvp) =>
        \A p \in CheckPositions(run_out[1].value.sections) :
            LET c == CheckAt(run_out[1].value.sections, p)
            IN  c.check_id \in EvidencePresenceIds(run_rules[1]) =>
                    /\ c.status \in {"MET", "SKIPPED"}
                    /\ c.status = "SKIPPED" => c.message # ""

\* The content rules of the rule set whose pattern is no regular expression
MalformedContentRules(rules) ==
    UNION { {e.rules[k] : k \in {k \in DOMAIN e.rules :
                                    e.rules[k].type = "regex" /\ e.rules[k].pattern = "("}} :
            e \in Range(rules.pdf_evidence.content_rules) }

\* C24: a content rule whose evaluation fails (a malformed regular
\* expression) is reported by a check of its own, NOT_MET in strict mode and
\* MET with a warning in mvp mode, and the run is not aborted.
C24_FailedContentRuleIsReported ==
    (unit = "run" /\ run_pc = "done" /\ run_in.rules_file # <<>>
         /\ \A k \in DOMAIN run_in.workbooks : run_in.workbooks[k] # <<>>) =>
        /\ run_out[1].kind = "returned"
        /\ \A r \in MalformedContentRules(run_rules[1]) :
              \E p \in CheckPositions(run_out[1].value.sections) :
                  LET c == CheckAt(run_out[1].value.sections, p)
                  IN  /\ c.name = r.name \/ c.check_id = r.id
                      /\ IF run_in.mvp THEN c.status = "MET" /\ c.message # ""
                         ELSE c.status = "NOT_MET"

\* C25: once the rules are loaded, validate() always returns a ReviewResult
\* with its six sections: no failure of a single check leaves it as an
\* exception.
C25_ValidateAlwaysReturns ==
    (unit = "run" /\ run_pc = "done" /\ run_in.rules_file # <<>>) =>
        /\ run_out[1].kind = "returned"
        /\ Len(run_out[1].value.sections) = Len(SectionIds)

\* C26: no check ever has the status PARTIALLY_MET: the status of every
\* check of every section is MET, NOT_MET, SKIPPED or UNKNOWN.
C26_CheckStatuses ==
    unit = "run" =>
        \A p \in CheckPositions(run_sections) :
            /\ CheckAt(run_sections, p).status \in Statuses
            /\ CheckAt(run_sections, p).status # "PARTIALLY_MET"

\* A run whose checks are MET, NOT_MET and SKIPPED, in a section that is
\* met in part.
C26_Witness ==
    /\ RunReturned
    /\ \E k \in DOMAIN run_sections :
          /\ run_sections[k].status = "PARTIALLY_MET"
          /\ {"MET", "SKIPPED"} \subseteq
                 {run_sections[k].checks[j].status : j \in DOMAIN run_sections[k].checks}
    /\ \E p \in CheckPositions(run_sections) : CheckAt(run_sections, p).status = "NOT_MET"

\* C27: within one run the check ids are unique across all six sections.
C27_CheckIdsUnique ==
    unit = "run" =>
        \A p, q \in CheckPositions(run_sections) :
            CheckAt(run_sections, p).check_id = CheckAt(run_sections, q).check_id => p = q

\* A finished run over a rule set that names the same file twice, where
\* every required file exists and so has two checks.
C27_Witness ==
    /\ RunReturned
    /\ LET files == run_rules[1].pdf_evidence.required_files
       IN  /\ Len(files) = 2 /\ files[1] = files[2]
           /\ Len(run_sections[2].checks) = 4

\* C28: load_rules with a path to a file that does not exist returns a
\* default rule set, with min_text_chars >= 0 and at least one required
\* evidence file.
C28_DefaultRulesIfMissing ==
    (unit = "run" /\ run_in.rules_file = <<>> /\ run_pc # "load_rules") =>
        /\ run_rules # <<>>
        /\ run_rules[1].pdf_evidence.min_text_chars >= 0
        /\ Len(run_rules[1].pdf_evidence.required_files) >= 1

\* C29: the overall status is MET only if every section is MET, and a
\* section is MET only if every one of its checks is MET; whenever a check
\* is SKIPPED the overall status is not MET.
C29_OverallMetOnlyIfAllMet ==
    RunReturned =>
        LET res == run_out[1].value
        IN  /\ res.overall_status = "MET" =>
                   \A k \in DOMAIN res.sections : res.sections[k].status = "MET"
            /\ \A k \in DOMAIN res.sections :
                   res.sections[k].status = "MET" =>
                       \A j \in DOMAIN res.sections[k].checks :
                           res.sections[k].checks[j].status = "MET"
            /\ (\E p \in CheckPositions(res.sections) :
                    CheckAt(res.sections, p).status = "SKIPPED")
                   => res.overall_status # "MET"

\* A run in which S4.4-01 is SKIPPED because SoD relevancy is no, and every
\* other check is MET.
C29_Witness ==
    /\ RunReturned
    /\ run_in.sod_value = <<"no">>
    /\ \A p \in CheckPositions(run_out[1].value.sections) :
          LET c == CheckAt(run_out[1].value.sections, p)
          IN  IF c.check_id = "S4.4-01" THEN c.status = "SKIPPED" ELSE c.status = "MET"
    /\ run_out[1].value.overall_status # "MET"

-----------------------------------------------------------------------------
(* Properties of the view of the DAC.                                     *)

\* The OCR call returned at least one page with non-empty text.
OcrReturnedText ==
    /\ vw_in.ocr.kind = "returned"
    /\ \E p \in DOMAIN vw_in.ocr.ocr_page_map : vw_in.ocr.ocr_page_map[p] # <<>>

\* What the same call returns on the base document
BaseCall(op, arg) ==
    CASE op = "page_count" -> PdfDoc_page_count(vw_in.doc)
      [] op = "page_lines" -> PdfDoc_page_lines(vw_in.doc, arg)
      [] op = "all_text" -> PdfDoc_all_text(vw_in.doc)
      [] op = "find_pages_containing" -> FindPagesContainingText(vw_in.doc, arg)

\* The overlay view is installed only when the OCR call returned at least
\* one page with non-empty text; otherwise pdf is the base document and
\* every call on it returns what the native document returns.
OverlayOnlyAfterText ==
    /\ vw_pdf = <<"overlay">> => OcrReturnedText
    /\ ~OcrReturnedText =>
           /\ vw_pdf = <<"base">>
           /\ vw_read # <<>> => vw_read[1].value = BaseCall(vw_read[1].op, vw_read[1].arg)

\* The number of pages, the lines of every page that counts as native, and
\* whether such a page is found by a page search, are those of the base
\* document.
NativePagesKept(native(_)) ==
    vw_read # <<>> =>
        LET r == vw_read[1]
        IN  /\ r.op = "page_count" => r.value = PdfDoc_page_count(vw_in.doc)
            /\ (r.op = "page_lines" /\ native(r.arg)) =>
                   r.value = PdfDoc_page_lines(vw_in.doc, r.arg)
            /\ r.op = "find_pages_containing" =>
                   \A i \in 0..(Len(vw_in.doc) - 1) :
                       native(i) =>
                           (i \in Range(r.value) <=> i \in Range(BaseCall(r.op, r.arg)))

\* The native text of page i is not empty.
NativeNonEmpty(i) == PdfDoc_page_text(vw_in.doc, i) # <<>>

\* The native text of page i is not empty after trimming.
NativeNonBlank(i) == HasInk(PdfDoc_page_text(vw_in.doc, i))

\* C30, as stated: OCR is additive in validate.  The overlay view replaces
\* the base view only when the OCR call returned at least one page with
\* non-empty text; when OCR was not attempted, failed or returned only empty
\* text, every call on the view returns what the native document returns;
\* and in all cases the number of pages and the text of the pages with
\* non-empty native text are those of the base document.
C30_OcrIsAdditive ==
    (unit = "view" /\ vw_pdf # <<>>) =>
        OverlayOnlyAfterText /\ NativePagesKept(NativeNonEmpty)

\* C30, amended: the same, with the pages that keep their text being those
\* whose native text is non-empty after trimming; a page whose native text
\* is white space only is read from its OCR text when it has one.
C30_OcrKeepsNonBlankNativeText ==
    (unit = "view" /\ vw_pdf # <<>>) =>
        OverlayOnlyAfterText /\ NativePagesKept(NativeNonBlank)

\* The overlay is installed over a document with a scanned page that got
\* OCR text and a native page that got OCR text too, and the lines of the
\* native page were read: they are the native ones.
C30_Witness ==
    /\ unit = "view" /\ vw_pdf = <<"overlay">> /\ vw_read # <<>>
    /\ vw_read[1].op = "page_lines"
    /\ HasInk(PdfDoc_page_text(vw_in.doc, vw_read[1].arg))
    /\ HasInk(OcrTextOf(vw_in.ocr.ocr_page_map, vw_read[1].arg))
    /\ \E i \in 0..(Len(vw_in.doc) - 1) :
          /\ ~HasInk(PdfDoc_page_text(vw_in.doc, i))
          /\ HasInk(OcrTextOf(vw_in.ocr.ocr_page_map, i))
    /\ vw_read[1].value = PdfDoc_page_lines(vw_in.doc, vw_read[1].arg)
    /\ Len(vw_read[1].value) = 2

-----------------------------------------------------------------------------
(* The whole model: the sum of the units.                                  *)

Init == InitSection \/ InitReport \/ InitThreshold \/ InitOverlay \/ InitDac
    \/ InitEvidence
    \/ InitCache
    \/ InitYesNo
    \/ InitExtract
    \/ InitExport
    \/ InitTable
    \/ InitRun
    \/ InitView

Next == NextSection \/ NextReport \/ NextThreshold \/ NextOverlay \/ NextDac
    \/ NextEvidence
    \/ NextCache
    \/ NextYesNo
    \/ NextExtract
    \/ NextExport
    \/ NextTable
    \/ NextRun
    \/ NextView

Spec == Init /\ [][Next]_vars

=============================================================================
